---- MODULE Spec2Model ----
(***************************************************************************)
(* Ralph loop (kream0/rw2): the stop hook that keeps an agent iterating,   *)
(* the strategy engine it calls, and the files the loop lives in.          *)
(*                                                                         *)
(* Texts (field values, messages, prompt lines) are sequences of tokens:   *)
(* one token per character for numeric fields, one token per word, tag or  *)
(* whitespace run elsewhere.                                               *)
(***************************************************************************)
EXTENDS Integers, Sequences, FiniteSets, TLC

VARIABLES
  stateFile,    \* .claude/ralph-loop.local.md (the loop marker and LoopState)
  memory,       \* .claude/RALPH_MEMORY.md
  status,       \* .claude/RALPH_STATUS.md
  nudge,        \* .claude/RALPH_NUDGE.md
  checkpoint,   \* .claude/RALPH_CHECKPOINT.md
  summary,      \* .claude/RALPH_SUMMARY.md
  last,         \* what the last stop-hook invocation read and returned
  setups,       \* number of loops set up so far
  seInput,      \* strategy engine: the input under evaluation
  seResult,     \* strategy engine: the StrategyResult printed for seInput
  headless,     \* run-headless.sh: its ITERATION, its inputs, its memory file
  context,      \* build-context.ts: the input it is given and what it prints
  calls         \* stop-hook invocations in flight: what each has read, where it stands

vars == <<stateFile, memory, status, nudge, checkpoint, summary, last, setups,
          seInput, seResult, headless, context, calls>>

hookVars == <<stateFile, memory, status, nudge, checkpoint, summary, last, setups>>
engineVars == <<seInput, seResult>>

(***************************************************************************)
(* Bounds                                                                  *)
(***************************************************************************)
MaxIteration == 3       \* the loop is followed up to this iteration
MaxSetups == 1          \* loops set up in one behaviour
MaxEngineIteration == 37 \* iterations fed to the strategy engine
MaxStuck == 6           \* stuck_count values fed to the strategy engine
MaxCount == 4           \* repeated-error counts fed to the strategy engine
MaxTurnIteration == 11  \* iteration values of the single-turn specification
MaxLiveIteration == 9     \* iterations followed in the loops with a cap
MaxMemoryRuns == 3        \* runs of update-memory.ts on one memory file
MaxHeadlessIteration == 24 \* iterations of the headless runner

(***************************************************************************)
(* Sequence helpers                                                        *)
(***************************************************************************)
RECURSIVE Flatten(_)
Flatten(ss) == IF ss = <<>> THEN <<>> ELSE Head(ss) \o Flatten(Tail(ss))

RECURSIVE JoinWith(_, _)
JoinWith(ss, sep) ==
  IF ss = <<>> THEN <<>>
  ELSE IF Len(ss) = 1 THEN Head(ss)
  ELSE Head(ss) \o <<sep>> \o JoinWith(Tail(ss), sep)

RECURSIVE SelectIdx(_, _)
\* indices i of s, in order, with P[i]
SelectIdx(n, P) ==
  IF n = 0 THEN <<>>
  ELSE IF P[n] THEN Append(SelectIdx(n - 1, P), n) ELSE SelectIdx(n - 1, P)

(***************************************************************************)
(* Strategy engine (scripts/strategy-engine.ts)                            *)
(***************************************************************************)
EXPLORE_END == 10
FOCUSED_END == 35
REPEATED_ERROR_THRESHOLD == 3
STUCK_THRESHOLD == 5

Strategies == {"explore", "focused", "cleanup", "recovery"}

determineBaseStrategy_offByOne(iteration) ==
  IF iteration < EXPLORE_END THEN "explore"
  ELSE IF iteration <= FOCUSED_END THEN "focused"
  ELSE "cleanup"

determineBaseStrategy(iteration) ==
  IF iteration <= EXPLORE_END THEN "explore"
  ELSE IF iteration <= FOCUSED_END THEN "focused"
  ELSE "cleanup"

\* one guidance line; the recovery focus line also carries the label and count
G(t) == [text |-> t, pattern |-> "", count |-> 0]

getStrategyGuidance(strategy, analysis) ==
  CASE strategy = "explore" ->
         << G("Explore the problem space broadly"),
            G("Try different approaches to understand the task"),
            G("Don't commit to a single solution yet"),
            G("Document what you learn for later iterations") >>
    [] strategy = "focused" ->
         << G("Commit to the best approach identified during exploration"),
            G("Implement incrementally with tests"),
            G("If stuck on an approach, pivot quickly"),
            G("Track progress against milestones") >>
    [] strategy = "cleanup" ->
         << G("Focus on finishing incomplete work"),
            G("Fix remaining bugs and edge cases"),
            G("Ensure all tests pass"),
            G("Prepare final deliverables"),
            G("Time is limited - prioritize ruthlessly") >>
    [] strategy = "recovery" ->
         << G("STOP and analyze what's going wrong"),
            G("Review failed attempts in memory"),
            G("Try a fundamentally different approach") >>
         \o (IF Len(analysis.repeated_errors) > 0
             THEN << [text |-> "Focus on fixing",
                      pattern |-> analysis.repeated_errors[1].pattern,
                      count |-> analysis.repeated_errors[1].count] >>
             ELSE << >>)
         \o << G("Consider simplifying the problem") >>
    [] OTHER -> << >>

hasRepeatedErrors_strict(analysis) ==
  \E i \in 1..Len(analysis.repeated_errors) :
     analysis.repeated_errors[i].count > REPEATED_ERROR_THRESHOLD

hasRepeatedErrors_loose(analysis) ==
  \E i \in 1..Len(analysis.repeated_errors) :
     analysis.repeated_errors[i].count >= REPEATED_ERROR_THRESHOLD - 1

hasRepeatedErrors(analysis) ==
  \E i \in 1..Len(analysis.repeated_errors) :
     analysis.repeated_errors[i].count >= REPEATED_ERROR_THRESHOLD

\* state.strategy?.current || "explore"
currentStrategyOf(state) ==
  IF state.strategy.current = "" THEN "explore" ELSE state.strategy.current

shouldSwitch_always(baseStrategy, currentStrategy) ==
  baseStrategy # currentStrategy

shouldSwitch(baseStrategy, currentStrategy) ==
  baseStrategy # currentStrategy /\ currentStrategy # "recovery"

determineStrategy(state, analysis) ==
  LET iteration == state.iteration
      currentStrategy == currentStrategyOf(state)
      isStuck == state.progress.stuck_count >= STUCK_THRESHOLD
      noMeaningfulChanges == ~analysis.meaningful_changes
  IN
  IF hasRepeatedErrors(analysis) \/ isStuck
  THEN [ strategy |-> "recovery",
         reason |-> IF hasRepeatedErrors(analysis)
                    THEN [kind |-> "repeated", n |-> analysis.repeated_errors[1].count,
                          what |-> analysis.repeated_errors[1].pattern, velocity |-> ""]
                    ELSE [kind |-> "stuck", n |-> state.progress.stuck_count,
                          what |-> "", velocity |-> ""],
         action |-> IF currentStrategy = "recovery" THEN "continue" ELSE "switch",
         guidance |-> getStrategyGuidance("recovery", analysis) ]
  ELSE
    LET baseStrategy == determineBaseStrategy(iteration)
        switch == shouldSwitch(baseStrategy, currentStrategy)
    IN [ strategy |-> baseStrategy,
         reason |-> [kind |-> IF switch THEN "phase" ELSE "continuing",
                     n |-> iteration,
                     what |-> baseStrategy,
                     velocity |-> IF analysis.meaningful_changes THEN "making progress"
                                  ELSE IF noMeaningfulChanges /\ iteration > 1
                                       THEN "no meaningful changes"
                                       ELSE ""],
         action |-> IF switch THEN "switch" ELSE "continue",
         guidance |-> getStrategyGuidance(baseStrategy, analysis) ]

\* main(): defaults for missing fields, then determineStrategy
strategyEngineMain(state, analysis) ==
  determineStrategy([state EXCEPT !.iteration = IF @ = 0 THEN 1 ELSE @], analysis)

\* the hook's fallback when the engine fails
DefaultStrategyResult ==
  [ strategy |-> "explore",
    reason |-> [kind |-> "default", n |-> 0, what |-> "", velocity |-> ""],
    action |-> "continue",
    guidance |-> << G("Continue working") >> ]

NoStrategyResult ==
  [ strategy |-> "",
    reason |-> [kind |-> "", n |-> 0, what |-> "", velocity |-> ""],
    action |-> "",
    guidance |-> << >> ]

(***************************************************************************)
(* Numbers as text.  A numeric field of the state file is the text after   *)
(* "key: "; bash, jq and the scripts each read it in their own way.        *)
(***************************************************************************)
Digits == {"0", "1", "2", "3", "4", "5", "6", "7", "8", "9"}

DigitVal ==
  ("0" :> 0) @@ ("1" :> 1) @@ ("2" :> 2) @@ ("3" :> 3) @@ ("4" :> 4) @@
  ("5" :> 5) @@ ("6" :> 6) @@ ("7" :> 7) @@ ("8" :> 8) @@ ("9" :> 9)

DigitChar == <<"0", "1", "2", "3", "4", "5", "6", "7", "8", "9">>

\* [[ "$X" =~ ^[0-9]+$ ]] accepts any digit: used by the mutant of IsNumeric
\* [[ "$X" =~ ^[0-9]+$ ]]
IsNumeric(text) == Len(text) > 0 /\ \A i \in 1..Len(text) : text[i] \in Digits

RECURSIVE ValueInBase(_, _)
ValueInBase(text, base) ==
  IF text = <<>> THEN 0
  ELSE ValueInBase(SubSeq(text, 1, Len(text) - 1), base) * base + DigitVal[text[Len(text)]]

\* the number jq (--argjson) and JSON.parse hand to the scripts
DecValue(text) == ValueInBase(text, 10)

BashError == -1

\* bash arithmetic ([[ a -gt b ]], $(( )), (( ))): a leading 0 means octal,
\* and an octal constant with a digit 8 or 9 is an error
BashValue(text) ==
  IF Len(text) > 1 /\ text[1] = "0"
  THEN IF \E i \in 1..Len(text) : text[i] \in {"8", "9"}
       THEN BashError
       ELSE ValueInBase(text, 8)
  ELSE ValueInBase(text, 10)

RECURSIVE FormatDec(_)
FormatDec(n) ==
  IF n < 10 THEN <<DigitChar[n + 1]>>
  ELSE Append(FormatDec(n \div 10), DigitChar[(n % 10) + 1])

\* [[ a -gt b ]] / [[ a -ge b ]]: an operand that is not a valid constant
\* makes the test fail (status 1), which an if treats as false
BashGt(a, b) == BashValue(a) # BashError /\ BashValue(b) # BashError /\ BashValue(a) > BashValue(b)
BashGe_strict(a, b) == BashValue(a) # BashError /\ BashValue(b) # BashError /\ BashValue(a) > BashValue(b)
BashGe(a, b) == BashValue(a) # BashError /\ BashValue(b) # BashError /\ BashValue(a) >= BashValue(b)

(***************************************************************************)
(* The state file: frontmatter fields and the prompt body, line by line    *)
(***************************************************************************)
TextLine(w) == [kind |-> "text", key |-> w, val |-> << >>]
SepLine == [kind |-> "sep", key |-> "---", val |-> << >>]
BlankLine == [kind |-> "blank", key |-> "", val |-> << >>]
KVLine(k, v) == [kind |-> "kv", key |-> k, val |-> v]

\* every header field is the list of its "key: value" lines (one, as written
\* by setup; none once the line is lost)
NoStateFile ==
  [ exists |-> FALSE,
    iteration |-> << >>, max_iterations |-> << >>, completion_promise |-> << >>,
    started_at |-> << >>, session_id |-> << >>,
    checkpoint_interval |-> << >>, checkpoint_mode |-> << >>,
    current |-> << >>, stuck_count |-> << >>,
    body |-> << >> ]

\* setup-ralph-loop.sh: cat > .claude/ralph-loop.local.md
SetupStateFile(maxIterations, completionPromise, checkpointInterval, checkpointMode, prompt) ==
  [ exists |-> TRUE,
    iteration |-> << <<"1">> >>,
    max_iterations |-> << maxIterations >>,
    completion_promise |-> << completionPromise >>,
    started_at |-> << <<"T0">> >>,
    session_id |-> << <<"ralph-S">> >>,
    checkpoint_interval |-> << checkpointInterval >>,
    checkpoint_mode |-> << <<checkpointMode>> >>,
    current |-> << <<"explore">> >>,
    stuck_count |-> << <<"0">> >>,
    body |-> <<BlankLine>> \o prompt ]

\* number of "---" lines of the body before line i
RECURSIVE SepsBefore(_, _)
SepsBefore(body, i) ==
  IF i <= 1 THEN 0
  ELSE SepsBefore(body, i - 1) + (IF body[i - 1].kind = "sep" THEN 1 ELSE 0)

\* parse_frontmatter: sed -n '/^---$/,/^---$/{ /^---$/d; p; }' prints every
\* "---"-delimited range of the file, so a "---" line in the body opens a
\* further range
InFrontmatter(body, i) == body[i].kind # "sep" /\ SepsBefore(body, i) % 2 = 1

BodyValues(body, key) ==
  LET P == [i \in 1..Len(body) |->
              InFrontmatter(body, i) /\ body[i].kind = "kv" /\ body[i].key = key]
      idx == SelectIdx(Len(body), P)
  IN [j \in 1..Len(idx) |-> body[idx[j]].val]

\* get_yaml_value: grep "^key:" | sed ... ; found is grep's exit status, and
\* several matching lines come back as one text with newlines in it
get_yaml_value(file, key, headerLines) ==
  LET lines == headerLines \o BodyValues(file.body, key)
  IN [found |-> Len(lines) > 0, text |-> JoinWith(lines, "\n")]

\* get_yaml_nested_value: grep "^  key:" (the body lines modelled never start
\* with two blanks)
get_yaml_nested_value(headerLines) ==
  [found |-> Len(headerLines) > 0, text |-> JoinWith(headerLines, "\n")]

\* PROMPT_TEXT=$(awk '/^---$/{i++; next} i>=2' file): the body without its
\* "---" lines; $( ) drops the trailing newlines
RECURSIVE DropTrailingBlank(_)
DropTrailingBlank(lines) ==
  IF lines # << >> /\ lines[Len(lines)].kind = "blank"
  THEN DropTrailingBlank(SubSeq(lines, 1, Len(lines) - 1))
  ELSE lines

PromptText(file) ==
  LET P == [i \in 1..Len(file.body) |-> file.body[i].kind # "sep"]
      idx == SelectIdx(Len(file.body), P)
  IN DropTrailingBlank([j \in 1..Len(idx) |-> file.body[idx[j]]])

\* sed -e "s/^iteration: .*/iteration: N/" -e "s/^  current: .*/  current: \"S\"/"
\* over every line of the file
RewriteStateFile_strategyOnly(file, nextIteration, newStrategy) ==
  [ file EXCEPT !.current = [i \in 1..Len(@) |-> <<newStrategy>>] ]

RewriteStateFile(file, nextIteration, newStrategy) ==
  [ file EXCEPT
      !.iteration = [i \in 1..Len(@) |-> nextIteration],
      !.current = [i \in 1..Len(@) |-> <<newStrategy>>],
      !.body = [i \in 1..Len(@) |->
                  IF @[i].kind = "kv" /\ @[i].key = "iteration"
                  THEN KVLine("iteration", nextIteration)
                  ELSE @[i]] ]

(***************************************************************************)
(* Transcript analyzer (scripts/analyze-transcript.ts, scripts/types.ts)   *)
(*                                                                         *)
(* A message is a role and a list of content blocks; a block is a list of  *)
(* tokens.  A regular expression of the source matches a content when the  *)
(* content holds one of the tokens the expression matches.                 *)
(***************************************************************************)
Contains(toks, S) == \E i \in 1..Len(toks) : toks[i] \in S

FirstIn(toks, S) == toks[CHOOSE i \in 1..Len(toks) :
                           toks[i] \in S /\ \A j \in 1..(i - 1) : toks[j] \notin S]

RECURSIVE MapBlocks(_)
MapBlocks(blocks) ==
  IF blocks = << >> THEN << >> ELSE <<Head(blocks).toks>> \o MapBlocks(Tail(blocks))

RECURSIVE TextBlocks(_)
TextBlocks(blocks) ==
  IF blocks = << >> THEN << >>
  ELSE (IF Head(blocks).type = "text" /\ Head(blocks).toks # << >>
        THEN <<Head(blocks).toks>> ELSE << >>) \o TextBlocks(Tail(blocks))

extractTextContent(msg) == JoinWith(TextBlocks(msg.blocks), "\n")

\* text blocks as they are, every other block as its JSON text
extractFullContent(msg) == JoinWith(MapBlocks(msg.blocks), "\n")

\* ERROR_PATTERNS, in table order, each with the tokens its regex matches
ERROR_PATTERNS ==
  << [label |-> "TypeScript compilation error", hits |-> {"error TS2304:"}],
     [label |-> "JavaScript syntax error", hits |-> {"SyntaxError:"}],
     [label |-> "Python import error", hits |-> {"ModuleNotFoundError:"}],
     [label |-> "Test failure", hits |-> {"FAILED 2 tests"}],
     [label |-> "Timeout error", hits |-> {"timed out"}],
     [label |-> "File not found", hits |-> {"ENOENT:"}],
     [label |-> "Permission error", hits |-> {"permission denied"}],
     [label |-> "Module resolution error", hits |-> {"Cannot find module"}],
     [label |-> "Undefined reference error", hits |-> {"undefined is not"}],
     [label |-> "Stack overflow", hits |-> {"Maximum call stack"}] >>

RECURSIVE ErrorsOfContent(_, _)
\* content.match(pattern.regex): at most one hit per pattern and message
ErrorsOfContent(content, k) ==
  IF k > Len(ERROR_PATTERNS) THEN << >>
  ELSE (IF Contains(content, ERROR_PATTERNS[k].hits)
        THEN << [pattern |-> ERROR_PATTERNS[k].label,
                 sample |-> FirstIn(content, ERROR_PATTERNS[k].hits)] >>
        ELSE << >>) \o ErrorsOfContent(content, k + 1)

RECURSIVE findErrors_recent(_)
\* variant: only the last three messages are searched
findErrors_recent(messages) ==
  IF messages = << >> THEN << >>
  ELSE (IF Len(messages) <= 3
        THEN ErrorsOfContent(extractFullContent(Head(messages)), 1) ELSE << >>)
       \o findErrors_recent(Tail(messages))

RECURSIVE findErrors(_)
findErrors(messages) ==
  IF messages = << >> THEN << >>
  ELSE ErrorsOfContent(extractFullContent(Head(messages)), 1) \o findErrors(Tail(messages))

RECURSIVE Dedup(_)
\* the distinct elements of a sequence, in order of first occurrence
Dedup(s) ==
  IF s = << >> THEN << >>
  ELSE LET front == Dedup(SubSeq(s, 1, Len(s) - 1))
           x == s[Len(s)]
       IN IF \E i \in 1..Len(front) : front[i] = x THEN front ELSE Append(front, x)

CountOf(errors, label) == Cardinality({i \in 1..Len(errors) : errors[i].pattern = label})

RECURSIVE InsertByCount(_, _)
\* stable insertion into a list sorted by count, highest first
InsertByCount(sorted, e) ==
  IF sorted = << >> THEN <<e>>
  ELSE IF Head(sorted).count >= e.count
       THEN <<Head(sorted)>> \o InsertByCount(Tail(sorted), e)
       ELSE <<e>> \o sorted

RECURSIVE SortByCount(_)
SortByCount(s) ==
  IF s = << >> THEN << >>
  ELSE InsertByCount(SortByCount(SubSeq(s, 1, Len(s) - 1)), s[Len(s)])

\* variant: the labels with count >= 2 in order of first occurrence, unsorted
findRepeatedErrors_unsorted(errors) ==
  LET labels == Dedup([i \in 1..Len(errors) |-> errors[i].pattern])
      P == [i \in 1..Len(labels) |-> CountOf(errors, labels[i]) >= 2]
      idx == SelectIdx(Len(labels), P)
  IN [j \in 1..Len(idx) |->
        [pattern |-> labels[idx[j]], count |-> CountOf(errors, labels[idx[j]])]]

findRepeatedErrors(errors) ==
  LET labels == Dedup([i \in 1..Len(errors) |-> errors[i].pattern])
      P == [i \in 1..Len(labels) |-> CountOf(errors, labels[i]) >= 2]
      idx == SelectIdx(Len(labels), P)
  IN SortByCount([j \in 1..Len(idx) |->
                    [pattern |-> labels[idx[j]], count |-> CountOf(errors, labels[idx[j]])]])

\* FILE_PATTERNS: the tokens that mention a written file, and the path named
FileMentions ==
  ("Edited src/a.ts" :> "src/a.ts") @@ ("Wrote to b.ts" :> "b.ts") @@
  ("Edited undefined/x" :> "undefined/x")

\* filepath.includes("/") and not filepath.includes("undefined")
IsFilePath(p) == p \in {"src/a.ts"}

RECURSIVE FilesOfContent(_)
FilesOfContent(content) ==
  IF content = << >> THEN << >>
  ELSE (IF Head(content) \in DOMAIN FileMentions /\ IsFilePath(FileMentions[Head(content)])
        THEN <<FileMentions[Head(content)]>> ELSE << >>) \o FilesOfContent(Tail(content))

RECURSIVE AllContent(_)
AllContent(messages) ==
  IF messages = << >> THEN << >>
  ELSE extractFullContent(Head(messages)) \o AllContent(Tail(messages))

findModifiedFiles(messages) == Dedup(FilesOfContent(AllContent(messages)))

\* TEST_PATTERNS
TestRunTokens == {"npm test", "bun test"}
TestPassTokens == {"tests passed", "0 fail"}
TestFailTokens == {"tests failed", "FAIL "}

detectTestStatus(messages) ==
  [ tests_run |-> Contains(AllContent(messages), TestRunTokens),
    tests_passed |-> Contains(AllContent(messages), TestPassTokens),
    tests_failed |-> Contains(AllContent(messages), TestFailTokens) ]

\* PHASE_PATTERNS, in table order
PHASE_PATTERNS ==
  << [label |-> "phase-1", hits |-> {"phase 1 complete"}],
     [label |-> "phase-2", hits |-> {"phase 2 complete"}],
     [label |-> "phase-3", hits |-> {"phase 3 complete"}],
     [label |-> "implementation", hits |-> {"implementation complete"}],
     [label |-> "tests-passing", hits |-> {"tests passed"}],
     [label |-> "refactoring", hits |-> {"refactoring complete"}],
     [label |-> "setup", hits |-> {"setup complete"}] >>

RECURSIVE PhasesOfContent(_, _)
PhasesOfContent(content, k) ==
  IF k > Len(PHASE_PATTERNS) THEN << >>
  ELSE (IF Contains(content, PHASE_PATTERNS[k].hits)
        THEN <<PHASE_PATTERNS[k].label>> ELSE << >>) \o PhasesOfContent(content, k + 1)

RECURSIVE PhasesOf(_)
PhasesOf(messages) ==
  IF messages = << >> THEN << >>
  ELSE (IF Head(messages).role = "assistant"
        THEN PhasesOfContent(extractTextContent(Head(messages)), 1)
        ELSE << >>) \o PhasesOf(Tail(messages))

findPhaseCompletions(messages) == Dedup(PhasesOf(messages))

detectMeaningfulChanges(filesModified, testsRun, phaseCompletions) ==
  Len(filesModified) > 0 \/ testsRun \/ Len(phaseCompletions) > 0

analyzeTranscript(messages) ==
  LET errors == findErrors(messages)
      files == findModifiedFiles(messages)
      tests == detectTestStatus(messages)
      phases == findPhaseCompletions(messages)
  IN [ errors |-> errors,
       repeated_errors |-> findRepeatedErrors(errors),
       files_modified |-> files,
       tests_run |-> tests.tests_run,
       tests_passed |-> tests.tests_passed,
       tests_failed |-> tests.tests_failed,
       phase_completions |-> phases,
       meaningful_changes |-> detectMeaningfulChanges(files, tests.tests_run, phases) ]

\* the hook's fallback when the analyzer fails
DefaultAnalysis ==
  [ errors |-> << >>, repeated_errors |-> << >>, files_modified |-> << >>,
    tests_run |-> FALSE, tests_passed |-> FALSE, tests_failed |-> FALSE,
    phase_completions |-> << >>, meaningful_changes |-> FALSE ]

(***************************************************************************)
(* Session memory in Memorai (update-memory.ts, Memorai edition)           *)
(***************************************************************************)
\* the database: the stored items, oldest first, and the number of session
\* ids generated so far (generateSessionId never repeats an id)
EmptyMemory == [db |-> TRUE, items |-> << >>, ids |-> 0]

Item(kind, session, iteration, text) ==
  [kind |-> kind, session |-> session, iteration |-> iteration, text |-> text]

HasItem(mem, kind, session) ==
  \E i \in 1..Len(mem.items) : mem.items[i].kind = kind /\ mem.items[i].session = session

summarizeProgress(analysis) ==
  LET parts ==
        (IF Len(analysis.files_modified) > 0
         THEN << <<"Modified">> \o FormatDec(Len(analysis.files_modified)) \o <<"file(s)">> >>
         ELSE << >>)
        \o (IF analysis.tests_run
            THEN << << IF analysis.tests_passed THEN "tests passing"
                       ELSE IF analysis.tests_failed THEN "tests failing"
                       ELSE "tests run" >> >>
            ELSE << >>)
        \o (IF Len(analysis.phase_completions) > 0
            THEN << <<"completed:">> \o JoinWith([i \in 1..Len(analysis.phase_completions) |->
                                                   <<analysis.phase_completions[i]>>], ", ") >>
            ELSE << >>)
  IN IF Len(parts) > 0 THEN JoinWith(parts, "; ") ELSE <<"Made progress">>

\* storeSessionObjective: never updates an objective already stored
storeSessionObjective(mem, session, objective) ==
  IF HasItem(mem, "objective", session) THEN mem
  ELSE [mem EXCEPT !.items = Append(@, Item("objective", session, 0, objective))]

\* storeSessionState: one state item per session, updated in place
storeSessionState(mem, session, iteration, currentStatus) ==
  IF HasItem(mem, "state", session)
  THEN [mem EXCEPT !.items = [i \in 1..Len(@) |->
          IF @[i].kind = "state" /\ @[i].session = session
          THEN Item("state", session, iteration, currentStatus) ELSE @[i]]]
  ELSE [mem EXCEPT !.items = Append(@, Item("state", session, iteration, currentStatus))]

\* main() looks the session up under state.session_id, or under an id it
\* generates; updateMemory keeps the id of a session it found and otherwise
\* generates the id it stores under
updateMemory(mem, state, analysis) ==
  LET given == state.session_id # << >>
      lookup == IF given THEN state.session_id ELSE FormatDec(mem.ids + 1)
      drawn == IF given THEN mem.ids ELSE mem.ids + 1
      existing == HasItem(mem, "objective", lookup) \/ HasItem(mem, "state", lookup)
      session == IF existing THEN lookup ELSE FormatDec(drawn + 1)
      ids == IF existing THEN drawn ELSE drawn + 1
      m0 == [mem EXCEPT !.ids = ids]
      m1 == IF ~existing \/ state.iteration = 1
            THEN storeSessionObjective(m0, session, state.prompt_text) ELSE m0
      m2 == storeSessionState(m1, session, state.iteration, <<"Session started">>)
      m3 == IF analysis.meaningful_changes
            THEN [m2 EXCEPT !.items = Append(@, Item("progress", session, state.iteration,
                                                      summarizeProgress(analysis)))]
            ELSE m2
      m4 == IF Len(analysis.errors) > 0 /\ ~analysis.meaningful_changes
            THEN [m3 EXCEPT !.items = Append(@, Item("failure", session, state.iteration,
                      <<"Encountered">> \o FormatDec(Len(analysis.errors))
                      \o <<"error(s)", analysis.errors[1].pattern>>))]
            ELSE m3
  IN m4

RECURSIVE StoreErrorPatterns(_, _)
\* storeErrorPatternsToMemorai: repeated errors with 3 or more occurrences,
\* unless the pattern is already stored
StoreErrorPatterns(mem, repeated) ==
  IF repeated = << >> THEN mem
  ELSE LET e == Head(repeated)
           known == \E i \in 1..Len(mem.items) :
                       mem.items[i].kind = "error-pattern" /\ mem.items[i].text = <<e.pattern>>
           m == IF e.count >= 3 /\ ~known
                THEN [mem EXCEPT !.items = Append(@, Item("error-pattern", << >>, e.count, <<e.pattern>>))]
                ELSE mem
       IN StoreErrorPatterns(m, Tail(repeated))

(***************************************************************************)
(* Session memory in RALPH_MEMORY.md (update-memory.ts, file edition, as   *)
(* run by scripts/run-headless.sh)                                         *)
(***************************************************************************)
MAX_ITEMS == 20

\* a line of the memory file: "## name", "- text", a blank line, or other text
MdText(toks) == [t |-> "text", toks |-> toks]
MdHeading(name) == [t |-> "heading", toks |-> <<name>>]
MdBullet(toks) == [t |-> "bullet", toks |-> toks]
MdBlank == [t |-> "blank", toks |-> << >>]

\* the file without its frontmatter: the session id and the lines below it
NoMemoryFile == [exists |-> FALSE, session_id |-> << >>, body |-> << >>]

RECURSIVE TrimLines(_)
\* String.prototype.trim on a run of lines: no blank lines at either end
TrimLines(lines) ==
  IF lines = << >> THEN << >>
  ELSE IF Head(lines).t = "blank" THEN TrimLines(Tail(lines))
  ELSE IF lines[Len(lines)].t = "blank" THEN TrimLines(SubSeq(lines, 1, Len(lines) - 1))
  ELSE lines

\* sections[name]: the lines under the last "## name" up to the next heading
SectionLines(body, name) ==
  LET heads == { i \in 1..Len(body) : body[i].t = "heading" }
      mine == { i \in heads : body[i].toks = <<name>> }
  IN IF mine = {} THEN << >>
     ELSE LET i == CHOOSE k \in mine : \A j \in mine : j <= k
              later == { j \in heads : j > i }
              n == IF later = {} THEN Len(body) + 1
                   ELSE CHOOSE k \in later : \A j \in later : k <= j
          IN TrimLines(SubSeq(body, i + 1, n - 1))

BulletsOf(lines) == SelectSeq(lines, LAMBDA l : l.t = "bullet")

\* /^- \[Iteration (\d+)\] (.+)$/ on the text of a bullet
IterationMatch(toks) ==
  LET close == { k \in 1..Len(toks) : toks[k] = "]" }
      k == IF close = {} THEN 0 ELSE CHOOSE c \in close : \A d \in close : c <= d
  IN IF Len(toks) >= 4 /\ toks[1] = "[Iteration" /\ k >= 3 /\ k < Len(toks)
        /\ IsNumeric(SubSeq(toks, 2, k - 1))
     THEN [ok |-> TRUE, iteration |-> DecValue(SubSeq(toks, 2, k - 1)),
           rest |-> SubSeq(toks, k + 1, Len(toks))]
     ELSE [ok |-> FALSE, iteration |-> 0, rest |-> toks]

parseAccomplished(lines) ==
  LET bullets == BulletsOf(lines)
  IN [i \in 1..Len(bullets) |->
        LET m == IterationMatch(bullets[i].toks)
        IN [iteration |-> m.iteration, description |-> m.rest]]

\* (.+?)(?: \| Learning: (.+))?$ : the description ends at the first
\* " | Learning: " that has text after it
parseFailed(lines) ==
  LET bullets == BulletsOf(lines)
  IN [i \in 1..Len(bullets) |->
        LET m == IterationMatch(bullets[i].toks)
            cuts == { j \in 2..(Len(m.rest) - 2) :
                        m.rest[j] = "|" /\ m.rest[j + 1] = "Learning:" }
            j == IF ~m.ok \/ cuts = {} THEN 0
                 ELSE CHOOSE c \in cuts : \A d \in cuts : c <= d
        IN [iteration |-> m.iteration,
            description |-> IF j = 0 THEN m.rest ELSE SubSeq(m.rest, 1, j - 1),
            learning |-> IF j = 0 THEN << >> ELSE SubSeq(m.rest, j + 2, Len(m.rest))]]

parseListItems(lines) ==
  LET bullets == BulletsOf(lines)
  IN [i \in 1..Len(bullets) |-> bullets[i].toks]

\* parseMemoryFile: null (found FALSE) without a file
parseMemoryFile(file) ==
  [ found |-> file.exists,
    session_id |-> file.session_id,
    original_objective |-> SectionLines(file.body, "Original Objective"),
    current_status |-> SectionLines(file.body, "Current Status"),
    accomplished |-> parseAccomplished(SectionLines(file.body, "Accomplished")),
    failed_attempts |-> parseFailed(SectionLines(file.body, "Failed Attempts")),
    next_actions |-> parseListItems(SectionLines(file.body, "Next Actions")),
    key_learnings |-> parseListItems(SectionLines(file.body, "Key Learnings")) ]

OrLine(lines, placeholder) == IF lines = << >> THEN << MdText(<<placeholder>>) >> ELSE lines

formatMemoryFile(m) ==
  [ exists |-> TRUE,
    session_id |-> m.session_id,
    body |->
      << MdText(<<"# Ralph Session Memory">>), MdBlank, MdHeading("Original Objective") >>
      \o OrLine(m.original_objective, "_Not set_")
      \o << MdBlank, MdHeading("Current Status") >>
      \o OrLine(m.current_status, "_No status yet_")
      \o << MdBlank, MdHeading("Accomplished") >>
      \o OrLine([i \in 1..Len(m.accomplished) |->
                   MdBullet(<<"[Iteration">> \o FormatDec(m.accomplished[i].iteration)
                            \o <<"]">> \o m.accomplished[i].description)], "_Nothing yet_")
      \o << MdBlank, MdHeading("Failed Attempts") >>
      \o OrLine([i \in 1..Len(m.failed_attempts) |->
                   MdBullet(<<"[Iteration">> \o FormatDec(m.failed_attempts[i].iteration)
                            \o <<"]">> \o m.failed_attempts[i].description
                            \o (IF m.failed_attempts[i].learning # << >>
                                THEN <<"|", "Learning:">> \o m.failed_attempts[i].learning
                                ELSE << >>))], "_None yet_")
      \o << MdBlank, MdHeading("Next Actions") >>
      \o OrLine([i \in 1..Len(m.next_actions) |->
                   MdText(FormatDec(i) \o <<".">> \o m.next_actions[i])],
                "1. _Determine next steps_")
      \o << MdBlank, MdHeading("Key Learnings") >>
      \o OrLine([i \in 1..Len(m.key_learnings) |-> MdBullet(m.key_learnings[i])], "_None yet_")
      \o << MdBlank >> ]

\* list.slice(-MAX_ITEMS) when the list is longer than MAX_ITEMS
KeepLast_all(list) == list

KeepLast(list) ==
  IF Len(list) > MAX_ITEMS THEN SubSeq(list, Len(list) - MAX_ITEMS + 1, Len(list)) ELSE list

RECURSIVE PushNew(_, _)
\* for each learning: push it unless the list includes it
PushNew(list, learnings) ==
  IF learnings = << >> THEN list
  ELSE PushNew(IF \E i \in 1..Len(list) : list[i] = Head(learnings)
               THEN list ELSE Append(list, Head(learnings)), Tail(learnings))

\* what updateMemory keeps of a memory it was given
KeptObjective_input(existing, input) == input.state.prompt_text

KeptObjective(existing, input) == existing.original_objective

\* updateMemory(existing, input) of the file edition
fileUpdateMemory(existing, input) ==
  IF ~existing.found
  THEN [ found |-> TRUE, session_id |-> <<"ralph-1">>,
         original_objective |-> input.state.prompt_text,
         current_status |-> IF input.iteration_summary # << >> THEN input.iteration_summary
                            ELSE << MdText(<<"Session started">>) >>,
         accomplished |-> << >>, failed_attempts |-> << >>,
         next_actions |-> input.next_actions, key_learnings |-> << >> ]
  ELSE [ existing EXCEPT
           !.original_objective = KeptObjective(existing, input),
           !.current_status = IF input.iteration_summary # << >>
                              THEN input.iteration_summary ELSE @,
           !.next_actions = IF Len(input.next_actions) > 0 THEN input.next_actions ELSE @,
           !.accomplished = KeepLast(
              IF input.analysis.meaningful_changes
              THEN Append(@, [iteration |-> input.state.iteration,
                              description |-> summarizeProgress(input.analysis)])
              ELSE @),
           !.failed_attempts = KeepLast(
              IF Len(input.analysis.errors) > 0 /\ ~input.analysis.meaningful_changes
              THEN Append(@, [iteration |-> input.state.iteration,
                              description |-> <<"Encountered">>
                                  \o FormatDec(Len(input.analysis.errors)) \o <<"error(s)">>,
                              learning |-> <<input.analysis.errors[1].pattern>>])
              ELSE @),
           !.key_learnings = KeepLast(PushNew(@, input.learnings)) ]

\* main() of the file edition: parse, update, write
fileMain(file, input) == formatMemoryFile(fileUpdateMemory(parseMemoryFile(file), input))

\* no memory record has been written
NoRecord ==
  [ found |-> FALSE, session_id |-> << >>, original_objective |-> << >>,
    current_status |-> << >>, accomplished |-> << >>, failed_attempts |-> << >>,
    next_actions |-> << >>, key_learnings |-> << >> ]

\* run-headless.sh before its loop: ITERATION=1, no memory file
NoHeadless ==
  [ ITERATION |-> 1, MAX_ITERATIONS |-> 50, ended |-> "",
    PROMPT |-> << >>, analysis |-> DefaultAnalysis, learns |-> FALSE,
    memoryFile |-> NoMemoryFile, record |-> NoRecord ]

(***************************************************************************)
(* Status dashboard (scripts/update-status.ts)                             *)
(***************************************************************************)
NoStatus ==
  [ exists |-> FALSE, status |-> "", iteration |-> 0, max_iterations |-> 0, phase |-> "",
    next_checkpoint |-> 0, activity |-> <<"">>, activity_status |-> "",
    error_count |-> 0, error_patterns |-> << >>, files_changed |-> << >> ]

\* Math.ceil(iteration / interval) * interval, or null (0) without checkpoints
calculateNextCheckpoint(iteration, checkpointInterval) ==
  IF checkpointInterval <= 0 THEN 0
  ELSE ((iteration + checkpointInterval - 1) \div checkpointInterval) * checkpointInterval

determineActivityStatus(analysis) ==
  IF Len(analysis.errors) > 0
  THEN (IF analysis.meaningful_changes THEN "RETRY" ELSE "ERROR")
  ELSE "OK"

generateActivityAction(analysis, strategy) ==
  IF analysis.tests_run
  THEN << IF analysis.tests_passed THEN "Tests passed"
          ELSE IF analysis.tests_failed THEN "Tests failed" ELSE "Tests run" >>
  ELSE IF Len(analysis.files_modified) > 0
       THEN <<"Modified">> \o FormatDec(Len(analysis.files_modified)) \o <<"file(s)">>
  ELSE IF Len(analysis.phase_completions) > 0
       THEN <<"Completed">> \o analysis.phase_completions
  ELSE IF strategy.action = "switch" THEN <<"Strategy:", strategy.strategy>>
  ELSE <<"Working...">>

buildStatus(state, analysis, strategy) ==
  [ exists |-> TRUE, status |-> "running",
    iteration |-> state.iteration, max_iterations |-> state.max_iterations,
    phase |-> strategy.strategy,
    next_checkpoint |-> calculateNextCheckpoint(state.iteration, state.checkpoint_interval),
    activity |-> generateActivityAction(analysis, strategy),
    activity_status |-> determineActivityStatus(analysis),
    error_count |-> Len(analysis.errors),
    error_patterns |-> LET d == Dedup([i \in 1..Len(analysis.errors) |-> analysis.errors[i].pattern])
                       IN SubSeq(d, 1, IF Len(d) < 5 THEN Len(d) ELSE 5),
    files_changed |-> analysis.files_modified ]

\* setup-ralph-loop.sh: cat > .claude/RALPH_STATUS.md
SetupStatus(maxIterations, checkpointInterval) ==
  [ exists |-> TRUE, status |-> "running", iteration |-> 1,
    max_iterations |-> IF BashGt(maxIterations, <<"0">>) THEN DecValue(maxIterations) ELSE 0,
    phase |-> "explore",
    next_checkpoint |-> IF BashGt(checkpointInterval, <<"0">>) THEN DecValue(checkpointInterval) ELSE 0,
    activity |-> <<"Session started">>, activity_status |-> "OK",
    error_count |-> 0, error_patterns |-> << >>, files_changed |-> << >> ]

(***************************************************************************)
(* Context builder (scripts/build-context.ts)                              *)
(***************************************************************************)
Section(name, text) == [sec |-> name, text |-> text]

NoSessionMemory ==
  [ found |-> FALSE, original_objective |-> << >>, current_status |-> << >>,
    next_actions |-> << >>, key_learnings |-> << >> ]

ItemsOf(mem, kind, session) ==
  LET P == [i \in 1..Len(mem.items) |->
              mem.items[i].kind = kind /\ mem.items[i].session = session]
      idx == SelectIdx(Len(mem.items), P)
  IN [j \in 1..Len(idx) |-> mem.items[idx[j]].text]

\* loadMemoryFromMemorai: null when neither objective nor state is stored
loadMemoryFromMemorai(mem, session) ==
  LET objective == ItemsOf(mem, "objective", session)
      state == ItemsOf(mem, "state", session)
  IN IF objective = << >> /\ state = << >> THEN NoSessionMemory
     ELSE [ found |-> TRUE,
            original_objective |-> IF objective = << >> THEN << >> ELSE objective[1],
            current_status |-> IF state = << >> THEN << >> ELSE state[1],
            next_actions |-> << >>,
            key_learnings |-> ItemsOf(mem, "learning", session) ]

RECURSIVE GuidanceText(_)
GuidanceText(guidance) ==
  IF guidance = << >> THEN << >>
  ELSE (IF Head(guidance).pattern = "" THEN <<Head(guidance).text>>
        ELSE <<Head(guidance).text, Head(guidance).pattern>> \o FormatDec(Head(guidance).count))
       \o GuidanceText(Tail(guidance))

\* the error digest: one entry per label (the last sample seen), first 3
ErrorDigest(errors) ==
  LET labels == Dedup([i \in 1..Len(errors) |-> errors[i].pattern])
      shown == SubSeq(labels, 1, IF Len(labels) < 3 THEN Len(labels) ELSE 3)
      lastOf(l) == CHOOSE i \in 1..Len(errors) :
                      errors[i].pattern = l /\ \A j \in (i + 1)..Len(errors) : errors[j].pattern # l
  IN Flatten([k \in 1..Len(shown) |-> <<shown[k], errors[lastOf(shown[k])].sample>>])

LastN(s, n) == IF Len(s) <= n THEN s ELSE SubSeq(s, Len(s) - n + 1, Len(s))
FirstN(s, n) == IF Len(s) <= n THEN s ELSE SubSeq(s, 1, n)

\* let memory = input.memory; if (!memory && sessionId && databaseExists()) ...
SessionMemoryFor(given, state, mem) ==
  IF given.found THEN given
  ELSE IF state.session_id # << >> /\ mem.db
       THEN loadMemoryFromMemorai(mem, state.session_id)
       ELSE NoSessionMemory

\* a section pushed only under its if: omitted, not emitted empty
OptionalSection_emitted(name, present, text) == << Section(name, text) >>

OptionalSection(name, present, text) ==
  IF present THEN << Section(name, text) >> ELSE << >>

\* the lines buildContext pushes, section by section
renderContext(state, strategy, analysis, nudgeContent, sessionMemory, mem, pastLearnings) ==
     << Section("banner", FormatDec(state.iteration) \o <<strategy.strategy>>) >>
     \o OptionalSection("nudge", nudgeContent # << >>, nudgeContent)
     \o << Section("mission",
             IF sessionMemory.original_objective # << >> THEN sessionMemory.original_objective
             ELSE IF state.prompt_text # << >> THEN state.prompt_text
             ELSE <<"_No objective recorded_">>) >>
     \o OptionalSection("status", sessionMemory.current_status # << >>,
                        sessionMemory.current_status)
     \o OptionalSection("next_actions", Len(sessionMemory.next_actions) > 0,
                        Flatten(FirstN(sessionMemory.next_actions, 5)))
     \o << Section("guidance", <<strategy.strategy, strategy.reason.kind>>
                                \o GuidanceText(strategy.guidance)) >>
     \o OptionalSection("learnings", Len(sessionMemory.key_learnings) > 0,
                        Flatten(LastN(sessionMemory.key_learnings, 5)))
     \o OptionalSection("past_sessions", mem.db /\ Len(pastLearnings) > 0, pastLearnings)
     \o OptionalSection("errors", Len(analysis.errors) > 0, ErrorDigest(analysis.errors))
     \o OptionalSection("promise", state.completion_promise # << >>,
                        <<"<promise>">> \o state.completion_promise \o <<"</promise>">>)
     \o << Section("divider", << >>) >>
     \o << Section("prompt", state.prompt_text) >>

\* build-context.ts before it has run
NoContext == [ran |-> FALSE, input |-> << >>, directive |-> << >>]

\* buildContext for the input the stop hook sends (no memory in the input)
buildContext(state, strategy, analysis, nudgeContent, mem, pastLearnings) ==
  renderContext(state, strategy, analysis, nudgeContent,
                SessionMemoryFor(NoSessionMemory, state, mem), mem, pastLearnings)

(***************************************************************************)
(* Stop hook (hooks/stop-hook.sh)                                          *)
(***************************************************************************)
WS == {" ", "\n"}

RECURSIVE TrimLeft(_)
TrimLeft(s) == IF s # << >> /\ Head(s) \in WS THEN TrimLeft(Tail(s)) ELSE s

RECURSIVE TrimRight(_)
TrimRight(s) ==
  IF s # << >> /\ s[Len(s)] \in WS THEN TrimRight(SubSeq(s, 1, Len(s) - 1)) ELSE s

RECURSIVE Collapse(_)
Collapse(s) ==
  IF s = << >> THEN << >>
  ELSE IF Head(s) \in WS THEN <<" ">> \o Collapse(TrimLeft(s))
  ELSE <<Head(s)>> \o Collapse(Tail(s))

\* s/^\s+|\s+$//g; s/\s+/ /g
NormalizeWhitespace(s) == Collapse(TrimRight(TrimLeft(s)))

\* the first <promise> that has a </promise> after it, and that </promise>
HasPromiseTag(out) ==
  \E i \in 1..Len(out) : out[i] = "<promise>" /\ \E j \in (i + 1)..Len(out) : out[j] = "</promise>"

TagInner(out) ==
  LET i == CHOOSE i \in 1..Len(out) :
              out[i] = "<promise>" /\ \A k \in 1..(i - 1) : out[k] # "<promise>"
      j == CHOOSE j \in (i + 1)..Len(out) :
              out[j] = "</promise>" /\ \A k \in (i + 1)..(j - 1) : out[k] # "</promise>"
  IN SubSeq(out, i + 1, j - 1)

\* perl -0777 -pe 's/.*?<promise>(.*?)<\/promise>.*/$1/s; ...': without a
\* tag the substitution does not apply and the whole output goes on
ExtractPromiseText(out) ==
  IF HasPromiseTag(out) THEN NormalizeWhitespace(TagInner(out)) ELSE NormalizeWhitespace(out)

\* $( ) drops trailing newlines
RECURSIVE StripTrailingNewlines(_)
StripTrailingNewlines(s) ==
  IF s # << >> /\ s[Len(s)] = "\n" THEN StripTrailingNewlines(SubSeq(s, 1, Len(s) - 1)) ELSE s

HasAssistant(msgs) == \E i \in 1..Len(msgs) : msgs[i].role = "assistant"

LastAssistant(msgs) ==
  msgs[CHOOSE i \in 1..Len(msgs) :
         msgs[i].role = "assistant" /\ \A j \in (i + 1)..Len(msgs) : msgs[j].role # "assistant"]

\* jq: .message.content | map(select(.type == "text")) | map(.text) | join("\n")
LastOutput(msgs) ==
  LET blocks == LastAssistant(msgs).blocks
      P == [i \in 1..Len(blocks) |-> blocks[i].type = "text"]
      idx == SelectIdx(Len(blocks), P)
  IN StripTrailingNewlines(JoinWith([j \in 1..Len(idx) |-> blocks[idx[j]].toks], "\n"))

RECURSIVE LineTokens(_)
LineTokens(lines) ==
  IF lines = << >> THEN << >>
  ELSE << (CASE Head(lines).kind = "blank" -> << >>
             [] Head(lines).kind = "kv" -> <<Head(lines).key, ": ">> \o Head(lines).val
             [] OTHER -> <<Head(lines).key>>) >> \o LineTokens(Tail(lines))

PromptTokens(file) == JoinWith(LineTokens(PromptText(file)), "\n")

NoNudge == [exists |-> FALSE, text |-> << >>]
NoSummary == [exists |-> FALSE, completion_reason |-> "", final_iteration |-> 0]

\* generate-summary.ts main(): needs the database and a session_id in its input
generateSummary(sm, mem, input) ==
  IF ~mem.db \/ input.session_id = << >> THEN sm
  ELSE [exists |-> TRUE, completion_reason |-> input.completion_reason,
        final_iteration |-> input.final_iteration]

NoMessage ==
  [ kind |-> "", iteration |-> << >>, strategy |-> "", errors |-> 0,
    promise |-> << >>, nudged |-> FALSE, checkpoint |-> FALSE ]

NoLast ==
  [ called |-> FALSE, pre |-> NoStateFile, transcript |-> [exists |-> FALSE, msgs |-> << >>],
    lastOutput |-> << >>,
    decision |-> "", exit |-> 0, reason |-> "", directive |-> << >>,
    message |-> NoMessage, strategy |-> NoStrategyResult, analysis |-> DefaultAnalysis,
    isCheckpoint |-> FALSE, nudge |-> << >>, fails |-> {}, past |-> << >> ]

HookSteps == {"analyze", "strategy", "memory", "status", "context"}

\* the fields the hook reads with get_yaml_value / get_yaml_nested_value
HookFields(f) ==
  [ iteration |-> get_yaml_value(f, "iteration", f.iteration),
    max_iterations |-> get_yaml_value(f, "max_iterations", f.max_iterations),
    completion_promise |-> get_yaml_value(f, "completion_promise", f.completion_promise),
    started_at |-> get_yaml_value(f, "started_at", f.started_at),
    checkpoint_interval |-> get_yaml_value(f, "checkpoint_interval", f.checkpoint_interval),
    checkpoint_mode |-> get_yaml_value(f, "checkpoint_mode", f.checkpoint_mode),
    current |-> get_yaml_nested_value(f.current),
    stuck_count |-> get_yaml_nested_value(f.stuck_count) ]

AllFound(y) ==
  /\ y.iteration.found /\ y.max_iterations.found /\ y.completion_promise.found
  /\ y.started_at.found /\ y.checkpoint_interval.found /\ y.checkpoint_mode.found
  /\ y.current.found /\ y.stuck_count.found

OrDefault(text, default) == IF text = << >> THEN default ELSE text

\* [[ "$COMPLETION_PROMISE" != "null" ]] && [[ -n "$COMPLETION_PROMISE" ]]
PromiseConfigured(promise) == promise # <<"null">> /\ promise # << >>

\* STATE_JSON: jq -n --argjson iteration ... --arg prompt_text ...
StateJson(y, promptText) ==
  [ iteration |-> DecValue(y.iteration.text),
    max_iterations |-> DecValue(y.max_iterations.text),
    completion_promise |-> y.completion_promise.text,
    started_at |-> y.started_at.text,
    checkpoint_interval |-> DecValue(OrDefault(y.checkpoint_interval.text, <<"0">>)),
    checkpoint_mode |-> OrDefault(y.checkpoint_mode.text, <<"notify">>),
    strategy |-> [current |-> OrDefault(y.current.text, <<"explore">>)[1]],
    progress |-> [stuck_count |-> DecValue(OrDefault(y.stuck_count.text, <<"0">>))],
    prompt_text |-> promptText,
    session_id |-> << >> ]

\* if [[ ! -f "$RALPH_STATE_FILE" ]]; then exit 0
LoopActive_always(f) == TRUE

LoopActive(f) == f.exists

\* rm "$RALPH_STATE_FILE"
RemoveMarker_keep(files) == files

RemoveMarker(files) == [files EXCEPT !.stateFile = NoStateFile]

\* [[ -n "$PROMISE_TEXT" ]] && [[ "$PROMISE_TEXT" = "$COMPLETION_PROMISE" ]]
PromiseMatches_anyText(promiseText, promise) == promiseText # << >>

PromiseMatches(promiseText, promise) == promiseText # << >> /\ promiseText = promise

\* rm "$RALPH_NUDGE_FILE" after the hook has read it
TakeNudge_keep(ndg) == ndg

TakeNudge(ndg) == NoNudge

\* [[ "$IS_CHECKPOINT" == "true" ]] && [[ "${CHECKPOINT_MODE:-notify}" == "pause" ]]
PausesAt_anyMode(isCheckpoint, mode) == isCheckpoint

PausesAt(isCheckpoint, mode) == isCheckpoint /\ mode = <<"pause">>

\* ENHANCED_PROMPT=$(... build-context.ts 2>/dev/null || echo "$PROMPT_TEXT")
ContextFallback_nothing(promptText) == << >>

ContextFallback(promptText) == << Section("prompt", promptText) >>

\* the files and the record of the invocation after one run of the hook
StopHook(f, mem, st, ndg, ck, sm, tr, fails, pastLearnings) ==
  LET y == HookFields(f)
      unchanged == [ stateFile |-> f, memory |-> mem, status |-> st, nudge |-> ndg,
                     checkpoint |-> ck, summary |-> sm ]
      base == [NoLast EXCEPT !.called = TRUE, !.pre = f, !.transcript = tr]
      Allow(reason, files) ==
        RemoveMarker(files)
          @@ [last |-> [base EXCEPT !.decision = "allow", !.reason = reason]]
      Abort(code, files, l) ==
        files @@ [last |-> [l EXCEPT !.decision = "error", !.exit = code, !.reason = "abort"]]
  IN
  IF ~LoopActive(f)
    THEN unchanged @@ [last |-> [base EXCEPT !.decision = "allow", !.reason = "inactive"]]
  ELSE IF ~AllFound(y) THEN Abort(1, unchanged, base)
  ELSE IF ~IsNumeric(y.iteration.text) THEN Allow("corrupted", unchanged)
  ELSE IF ~IsNumeric(y.max_iterations.text) THEN Allow("corrupted", unchanged)
  ELSE IF BashGt(y.max_iterations.text, <<"0">>) /\ BashGe(y.iteration.text, y.max_iterations.text)
    THEN Allow("max_iterations",
               [unchanged EXCEPT !.summary =
                  generateSummary(sm, mem, [session_id |-> << >>,
                                            completion_reason |-> "max_iterations",
                                            final_iteration |-> DecValue(y.iteration.text)])])
  ELSE IF ~tr.exists THEN Allow("no_transcript", unchanged)
  ELSE IF ~HasAssistant(tr.msgs) THEN Allow("no_assistant", unchanged)
  ELSE IF LastOutput(tr.msgs) = << >> THEN Allow("empty_message", unchanged)
  ELSE
  LET out == LastOutput(tr.msgs)
      promise == y.completion_promise.text
      promiseText == ExtractPromiseText(out)
      heard == [base EXCEPT !.lastOutput = out]
  IN
  IF PromiseConfigured(promise) /\ PromiseMatches(promiseText, promise)
    THEN [RemoveMarker(unchanged) EXCEPT
            !.summary = generateSummary(sm, mem, [session_id |-> << >>,
                                                  completion_reason |-> "promise",
                                                  final_iteration |-> DecValue(y.iteration.text)])]
         @@ [last |-> [heard EXCEPT !.decision = "allow", !.reason = "promise"]]
  ELSE
  LET analyzed == "analyze" \notin fails
      analysis == IF analyzed THEN analyzeTranscript(tr.msgs) ELSE DefaultAnalysis
      mem1 == IF analyzed /\ mem.db THEN StoreErrorPatterns(mem, analysis.repeated_errors) ELSE mem
  IN
  IF ~IsNumeric(OrDefault(y.checkpoint_interval.text, <<"0">>))
     \/ ~IsNumeric(OrDefault(y.stuck_count.text, <<"0">>))
    THEN Abort(2, [unchanged EXCEPT !.memory = mem1], heard)
  ELSE
  LET promptText == PromptTokens(f)
      state == StateJson(y, promptText)
      strategy == IF "strategy" \notin fails
                  THEN strategyEngineMain(state, analysis) ELSE DefaultStrategyResult
      mem2 == IF "memory" \notin fails /\ mem1.db THEN updateMemory(mem1, state, analysis) ELSE mem1
      st2 == IF "status" \notin fails THEN buildStatus(state, analysis, strategy) ELSE st
      nudgeContent == IF ndg.exists THEN StripTrailingNewlines(ndg.text) ELSE << >>
      worked == [ stateFile |-> f, memory |-> mem2, status |-> st2, nudge |-> TakeNudge(ndg),
                  checkpoint |-> ck, summary |-> sm ]
      told == [heard EXCEPT !.analysis = analysis, !.strategy = strategy, !.nudge = nudgeContent,
                            !.fails = fails, !.past = pastLearnings]
  IN
  IF BashValue(y.iteration.text) = BashError THEN Abort(1, worked, told)
  ELSE
  LET nextIteration == BashValue(y.iteration.text) + 1
      interval == OrDefault(y.checkpoint_interval.text, <<"0">>)
      isCheckpoint == BashGt(interval, <<"0">>) /\ nextIteration % BashValue(interval) = 0
      mode == OrDefault(y.checkpoint_mode.text, <<"notify">>)
      directive == IF "context" \notin fails
                   THEN buildContext(state, strategy, analysis, nudgeContent, mem2, pastLearnings)
                   ELSE ContextFallback(promptText)
      rewritten == RewriteStateFile(f, FormatDec(nextIteration), strategy.strategy)
      blocked == [told EXCEPT !.decision = "block", !.isCheckpoint = isCheckpoint]
  IN
  IF PausesAt(isCheckpoint, mode)
    THEN [worked EXCEPT !.stateFile = rewritten, !.checkpoint = TRUE]
         @@ [last |-> [blocked EXCEPT
               !.reason = "checkpoint",
               !.directive = << Section("checkpoint", << >>) >>,
               !.message = [NoMessage EXCEPT !.kind = "checkpoint",
                                             !.iteration = FormatDec(nextIteration)]]]
    ELSE [worked EXCEPT !.stateFile = rewritten]
         @@ [last |-> [blocked EXCEPT
               !.reason = "continue",
               !.directive = directive,
               !.message = [ kind |-> "loop", iteration |-> FormatDec(nextIteration),
                             strategy |-> strategy.strategy,
                             errors |-> Len(analysis.errors),
                             promise |-> IF PromiseConfigured(promise) THEN promise ELSE << >>,
                             nudged |-> nudgeContent # << >>,
                             checkpoint |-> isCheckpoint /\ mode = <<"notify">> ]]]

(***************************************************************************)
(* Inputs                                                                  *)
(***************************************************************************)
Text(toks) == [type |-> "text", toks |-> toks]
Tool(toks) == [type |-> "tool_use", toks |-> toks]
Msg(role, blocks) == [role |-> role, blocks |-> blocks]

UserGo == Msg("user", << Text(<<"go">>) >>)
Working == Msg("assistant", << Text(<<"working">>) >>)
PromiseDone == Msg("assistant", << Text(<<"ok", " ", "<promise>", " ", "DONE", "\n", "</promise>">>) >>)
PromiseLower == Msg("assistant", << Text(<<"<promise>", "done", "</promise>">>) >>)
PlainDone == Msg("assistant", << Text(<<"DONE">>) >>)
TwoTags ==
  Msg("assistant", << Text(<<"<promise>", "no", "</promise>", "<promise>", "DONE", "</promise>">>) >>)
ToolOnly == Msg("assistant", << Tool(<<"error TS2304:">>) >>)
Failing == Msg("assistant", << Text(<<"error TS2304:", " ", "Edited src/a.ts">>), Tool(<<"npm test">>) >>)

NoTranscript == [exists |-> FALSE, msgs |-> << >>]
Transcript(msgs) == [exists |-> TRUE, msgs |-> msgs]

\* the transcripts a hook run is given
Transcripts ==
  { NoTranscript,
    Transcript(<< >>),
    Transcript(<< UserGo >>),
    Transcript(<< UserGo, Working >>),
    Transcript(<< Working, UserGo >>),
    Transcript(<< Working, PromiseDone >>),
    Transcript(<< PromiseDone, Working >>),
    Transcript(<< PromiseDone, UserGo >>),
    Transcript(<< PromiseLower >>),
    Transcript(<< PlainDone >>),
    Transcript(<< TwoTags >>),
    Transcript(<< Working, ToolOnly >>),
    Transcript(<< Failing, Working >>),
    Transcript(<< Failing, Failing, Failing >>) }

\* the transcripts of the runs of a whole loop
LoopTranscripts ==
  { NoTranscript,
    Transcript(<< UserGo, Working >>),
    Transcript(<< Failing, Working >>),
    Transcript(<< Failing, Failing, Failing >>),
    Transcript(<< Failing, Failing, Failing, Working >>),
    Transcript(<< Working, PromiseDone >>) }

\* the helper scripts that fail in one run: none, or one of them
FailSets == { {} } \cup { {s} : s \in HookSteps }
LoopFailSets == { {}, {"context"} }

\* what a Memorai search for past sessions can return
PastLearnings(mem) ==
  IF mem.items = << >> THEN { << >> } ELSE { << >>, <<"Ralph Session">> }

\* /ralph-loop arguments
Options(mx, pr, iv, md, pt) ==
  [max_iterations : mx, completion_promise : pr, checkpoint_interval : iv,
   checkpoint_mode : md, prompt : pt]

PlainPrompt == << TextLine("task") >>
\* a prompt with a horizontal rule in it
RuledPrompt == << TextLine("task"), SepLine, TextLine("more") >>
PromiseChoices == { <<"null">>, <<"DONE">> }

LoopOptions ==
  Options({ <<"0">>, <<"2">> }, { <<"DONE">> }, { <<"0">> }, { "notify" }, { PlainPrompt })
  \cup Options({ <<"0">>, <<"2">> }, { <<"null">> }, { <<"2">> }, { "pause" }, { PlainPrompt })

TurnOptions ==
  Options({ <<"0">>, <<"3">>, <<"0", "8">> }, PromiseChoices, { <<"0">>, <<"2">> },
          { "pause", "notify" },
          { PlainPrompt,
            << TextLine("task"), KVLine("iteration", <<"7">>) >>,
            << TextLine("task"), SepLine, KVLine("iteration", <<"7">>) >> })
  \cup Options({ <<"0">> }, { <<"null">> }, { <<"0", "8">> }, { "pause", "notify" },
              { PlainPrompt })
  \cup Options({ <<"0">> }, { <<"null">> }, { <<"0">> }, { "notify" }, { RuledPrompt })

SetupFile(o) ==
  SetupStateFile(o.max_iterations, o.completion_promise, o.checkpoint_interval,
                 o.checkpoint_mode, o.prompt)

NudgeChoices == { <<"focus">> }

\* what a damaged state file holds for a numeric field: no line, an empty
\* value, or a value that is not a number
DamagedLines == { << >>, << << >> >>, << <<"x">> >>, << <<"-", "1">> >> }

(***************************************************************************)
(* The loop                                                                *)
(***************************************************************************)
\* the invocations of the stop hook that may be in flight at once
Invocations == {1, 2}

\* no invocation has started
NoCalls == [p \in Invocations |-> [pc |-> "idle", held |-> << >>, decision |-> ""]]

NoEngineInput ==
  [ state |-> [iteration |-> 0, strategy |-> [current |-> ""], progress |-> [stuck_count |-> 0]],
    analysis |-> DefaultAnalysis, trace |-> << >> ]

Init ==
  /\ stateFile = NoStateFile
  /\ memory = EmptyMemory
  /\ status = NoStatus
  /\ nudge = NoNudge
  /\ checkpoint = FALSE
  /\ summary = NoSummary
  /\ last = NoLast
  /\ setups = 0
  /\ seInput = NoEngineInput
  /\ seResult = NoStrategyResult
  /\ headless = NoHeadless
  /\ context = NoContext
  /\ calls = NoCalls

\* /ralph-loop: setup-ralph-loop.sh
Setup ==
  /\ setups < MaxSetups
  /\ memory.db
  /\ \E o \in LoopOptions :
        /\ stateFile' = SetupFile(o)
        /\ status' = SetupStatus(o.max_iterations, o.checkpoint_interval)
  /\ setups' = setups + 1
  /\ UNCHANGED <<calls, memory, nudge, checkpoint, summary, last, seInput, seResult, headless, context>>

Apply(r) ==
  /\ stateFile' = r.stateFile
  /\ memory' = r.memory
  /\ status' = r.status
  /\ nudge' = r.nudge
  /\ checkpoint' = r.checkpoint
  /\ summary' = r.summary
  /\ last' = r.last

\* the host runs the stop hook at an attempted stop
StopHookRun ==
  /\ \E tr \in LoopTranscripts, fails \in LoopFailSets, past \in PastLearnings(memory) :
        \E r \in {StopHook(stateFile, memory, status, nudge, checkpoint, summary, tr, fails, past)} :
           /\ r.last.decision = "block" => DecValue(r.stateFile.iteration[1]) <= MaxIteration
           /\ Apply(r)
  /\ UNCHANGED <<calls, setups, seInput, seResult, headless, context>>

\* /ralph-nudge <instruction>
QueueNudge ==
  /\ stateFile.exists
  /\ \E t \in NudgeChoices : nudge' = [exists |-> TRUE, text |-> t]
  /\ UNCHANGED <<calls, stateFile, memory, status, checkpoint, summary, last, setups, seInput, seResult, headless, context>>

\* /ralph-checkpoint continue
CheckpointContinue ==
  /\ stateFile.exists
  /\ checkpoint
  /\ checkpoint' = FALSE
  /\ UNCHANGED <<calls, stateFile, memory, status, nudge, summary, last, setups, seInput, seResult, headless, context>>

Next == Setup \/ StopHookRun \/ QueueNudge \/ CheckpointContinue

Spec == Init /\ [][Next]_vars

(***************************************************************************)
(* The strategy engine on its own: one evaluation of a drawn input         *)
(***************************************************************************)
EngineStates ==
  [ iteration : 0..MaxEngineIteration,
    strategy : [current : Strategies \cup {""}],
    progress : [stuck_count : 0..MaxStuck] ]

\* repeated_errors as the analyzer reports them: counts of 2 and more, the
\* most frequent first
RepeatedChoices ==
  { << >> }
  \cup { << [pattern |-> "Timeout error", count |-> c] >> : c \in 2..MaxCount }
  \cup { << [pattern |-> "TypeScript compilation error", count |-> c],
            [pattern |-> "Timeout error", count |-> d] >> :
          c \in 2..MaxCount, d \in 2..2 }

EngineAnalyses ==
  { [DefaultAnalysis EXCEPT !.repeated_errors = r, !.meaningful_changes = m] :
      r \in RepeatedChoices, m \in BOOLEAN }

\* traces the analysis is computed from: the same error three times, in
\* three messages, in two, in one; and a trace without errors
TsError == "error TS2304:"

Erring(n) == Msg("assistant", << Text(JoinWith([i \in 1..n |-> <<TsError>>], " ")) >>)

TimedOut == Msg("assistant", << Text(<<"timed out">>) >>)

EngineTraces ==
  { << Erring(1), Erring(1), Erring(1) >>,
    << Erring(2), Working, Erring(1) >>,
    << UserGo, Erring(3) >>,
    << TimedOut, Erring(1), TimedOut, Erring(1), Erring(1) >>,
    << UserGo, Working >> }

InitStrategy ==
  /\ stateFile = NoStateFile
  /\ memory = EmptyMemory
  /\ status = NoStatus
  /\ nudge = NoNudge
  /\ checkpoint = FALSE
  /\ summary = NoSummary
  /\ last = NoLast
  /\ setups = 0
  /\ seInput \in [state : EngineStates, analysis : EngineAnalyses, trace : { << >> }]
                 \cup { [state |-> st, analysis |-> analyzeTranscript(t), trace |-> t] :
                           st \in EngineStates, t \in EngineTraces }
  /\ seResult = NoStrategyResult
  /\ headless = NoHeadless
  /\ context = NoContext
  /\ calls = NoCalls

\* strategy-engine.ts main(): read the input, print the decision
RunEngine ==
  /\ seResult = NoStrategyResult
  /\ seResult' = strategyEngineMain(seInput.state, seInput.analysis)
  /\ UNCHANGED <<calls, hookVars, seInput, headless, context>>

NextStrategy == RunEngine

SpecStrategy == InitStrategy /\ [][NextStrategy]_vars

EngineRan == seResult # NoStrategyResult

RecoveryTrigger ==
  \/ \E i \in 1..Len(seInput.analysis.repeated_errors) :
        seInput.analysis.repeated_errors[i].count >= 3
  \/ seInput.state.progress.stuck_count >= 5

\* C8: whenever some repeated_errors entry has count >= 3 or stuck_count >= 5,
\* the engine's decision is the recovery strategy, whatever the iteration and
\* the current strategy are.
C8_RecoveryOverride ==
  (EngineRan /\ RecoveryTrigger) => seResult.strategy = "recovery"

C8_Witness ==
  /\ EngineRan
  /\ seInput.state.iteration = 20
  /\ seInput.state.strategy.current = "cleanup"
  /\ seInput.state.progress.stuck_count = 0
  /\ Len(seInput.analysis.repeated_errors) = 2
  /\ seInput.analysis.repeated_errors[1].count = 3
  /\ seResult.strategy = "recovery"

\* C9: with no recovery trigger the strategy depends on the iteration alone:
\* explore up to 10, focused from 11 to 35, cleanup above 35, whatever the
\* current strategy is.
C9_PhaseByIteration ==
  (EngineRan /\ ~RecoveryTrigger) =>
     seResult.strategy =
       (IF seInput.state.iteration <= 10 THEN "explore"
        ELSE IF seInput.state.iteration <= 35 THEN "focused"
        ELSE "cleanup")

C9_Witness ==
  /\ EngineRan
  /\ ~RecoveryTrigger
  /\ seInput.state.iteration = 36
  /\ seInput.state.strategy.current = "explore"
  /\ seInput.state.progress.stuck_count = 4
  /\ seResult.strategy = "cleanup"

\* C10 as stated: the action is "switch" exactly when the computed strategy
\* differs from the current one (a missing current strategy being read as
\* explore), also when the loop leaves recovery.
C10_SwitchIffDiffers ==
  EngineRan =>
    (seResult.action = "switch" <=> seResult.strategy # currentStrategyOf(seInput.state))

\* C10 amended: the action is "switch" exactly when the computed strategy
\* differs from the current one and the current one is not recovery; on
\* leaving recovery for a phase-based strategy the action is "continue".
C10_SwitchUnlessLeavingRecovery ==
  EngineRan =>
    /\ seResult.action \in {"switch", "continue"}
    /\ seResult.action = "switch" <=>
          /\ seResult.strategy # currentStrategyOf(seInput.state)
          /\ currentStrategyOf(seInput.state) # "recovery"

C10_Witness ==
  /\ EngineRan
  /\ seInput.state.strategy.current = "recovery"
  /\ ~RecoveryTrigger
  /\ seResult.strategy = "focused"
  /\ seResult.action = "continue"

(***************************************************************************)
(* One turn: a single run of the stop hook on a state file that setup or   *)
(* an earlier run has written, or on one damaged since                     *)
(***************************************************************************)
\* the iteration can stand at n under these options: below the cap, or
\* anywhere when there is no cap or the cap is not one the shell can compare
CanStandAt(o, n) ==
  /\ IsNumeric(HookFields(SetupFile(o)).iteration.text)
  /\ \/ o.max_iterations = <<"0">>
     \/ BashValue(o.max_iterations) = BashError
     \/ n <= BashValue(o.max_iterations)

WrittenFiles(o) ==
  { SetupFile(o) }
  \cup { RewriteStateFile(SetupFile(o), FormatDec(n), c) :
           n \in {m \in 2..MaxTurnIteration : CanStandAt(o, m)},
           c \in {"explore", "recovery"} }

DamagedFiles(o) ==
  { [SetupFile(o) EXCEPT !.iteration = d] : d \in DamagedLines }
  \cup { [SetupFile(o) EXCEPT !.max_iterations = d] : d \in DamagedLines }

InitTurn ==
  /\ \E o \in TurnOptions :
        /\ stateFile \in WrittenFiles(o) \cup (IF o \in LoopOptions THEN DamagedFiles(o) ELSE {})
        /\ status = SetupStatus(o.max_iterations, o.checkpoint_interval)
  /\ memory = EmptyMemory
  /\ nudge \in {NoNudge} \cup {[exists |-> TRUE, text |-> t] : t \in NudgeChoices}
  /\ checkpoint = FALSE
  /\ summary = NoSummary
  /\ last = NoLast
  /\ setups = 1
  /\ seInput = NoEngineInput
  /\ seResult = NoStrategyResult
  /\ headless = NoHeadless
  /\ context = NoContext
  /\ calls = NoCalls

TurnHook ==
  /\ ~last.called
  /\ \E tr \in Transcripts, fails \in FailSets, past \in PastLearnings(memory) :
        \E r \in {StopHook(stateFile, memory, status, nudge, checkpoint, summary, tr, fails, past)} :
           Apply(r)
  /\ UNCHANGED <<calls, setups, seInput, seResult, headless, context>>

NextTurn == TurnHook

SpecTurn == InitTurn /\ [][NextTurn]_vars

\* the fields of the state file the run started from, as text
PreFields == HookFields(last.pre)

\* a well-formed non-negative decimal integer: one line, digits only
WellFormed(field) == field.found /\ IsNumeric(field.text)

\* the iteration of the state file, read as a decimal number
IterationOf(file) == DecValue(HookFields(file).iteration.text)

\* C1: a run that returns BLOCK, with a directive or at a pause checkpoint,
\* leaves the state file with iteration equal to the value it started from
\* plus exactly 1.
C1_BlockIncrements ==
  (last.called /\ last.decision = "block") =>
     /\ last.reason \in {"continue", "checkpoint"}
     /\ WellFormed(PreFields.iteration)
     /\ stateFile.exists
     /\ WellFormed(HookFields(stateFile).iteration)
     /\ IterationOf(stateFile) = IterationOf(last.pre) + 1

C1_Witness ==
  /\ last.decision = "block"
  /\ last.reason = "checkpoint"
  /\ PreFields.iteration.text = <<"9">>
  /\ HookFields(stateFile).iteration.text = <<"1", "0">>

\* C2 as stated: on an active loop whose iteration and max_iterations are
\* well-formed numbers with max_iterations > 0 and iteration >= max_iterations,
\* the run returns ALLOW with reason max_iterations, removes the marker and
\* produces no directive.
C2_CapReachedAllows ==
  ( /\ last.called
    /\ last.pre.exists
    /\ WellFormed(PreFields.iteration)
    /\ WellFormed(PreFields.max_iterations)
    /\ DecValue(PreFields.max_iterations.text) > 0
    /\ IterationOf(last.pre) >= DecValue(PreFields.max_iterations.text) ) =>
     /\ last.decision = "allow"
     /\ last.reason = "max_iterations"
     /\ ~stateFile.exists
     /\ last.directive = << >>

\* some <promise>...</promise> pair of the text holds p after normalization
SomeTagEquals(out, p) ==
  \E i \in 1..Len(out) : \E j \in (i + 1)..Len(out) :
     /\ out[i] = "<promise>"
     /\ out[j] = "</promise>"
     /\ NormalizeWhitespace(SubSeq(out, i + 1, j - 1)) = p

\* C3 as stated: a run ends the loop with reason promise only if the last
\* agent message contains a <promise> tag whose whitespace-normalized inner
\* text equals completion_promise; a message without such a tag never does.
C3_PromiseOnlyByTag ==
  (last.called /\ last.reason = "promise") =>
     SomeTagEquals(last.lastOutput, PreFields.completion_promise.text)

\* the run comes to the promise check: the state is well-formed, the cap is
\* not reached and the last agent message has text
ComesToPromiseCheck ==
  /\ last.called
  /\ last.pre.exists
  /\ WellFormed(PreFields.iteration)
  /\ WellFormed(PreFields.max_iterations)
  /\ ~(/\ DecValue(PreFields.max_iterations.text) > 0
       /\ IterationOf(last.pre) >= DecValue(PreFields.max_iterations.text))
  /\ last.transcript.exists
  /\ HasAssistant(last.transcript.msgs)
  /\ LastOutput(last.transcript.msgs) # << >>

\* C4: when the text of the promise tag differs from completion_promise, be
\* it by case only, the run keeps the marker and returns the normal BLOCK
\* with the iteration incremented.
C4_MismatchContinues ==
  ( /\ ComesToPromiseCheck
    /\ PromiseConfigured(PreFields.completion_promise.text)
    /\ HasPromiseTag(LastOutput(last.transcript.msgs))
    /\ NormalizeWhitespace(TagInner(LastOutput(last.transcript.msgs)))
         # PreFields.completion_promise.text ) =>
     /\ last.decision = "block"
     /\ last.exit = 0
     /\ stateFile.exists
     /\ IterationOf(stateFile) = IterationOf(last.pre) + 1

C4_Witness ==
  /\ last.called
  /\ last.transcript = Transcript(<< PromiseLower >>)
  /\ PreFields.completion_promise.text = <<"DONE">>
  /\ PreFields.iteration.text = <<"2">>
  /\ last.decision = "block"
  /\ last.reason = "continue"
  /\ HookFields(stateFile).iteration.text = <<"3">>

\* C5: a run that returns ALLOW leaves no marker, and a run that finds no
\* marker returns ALLOW with no directive and leaves the state file, the
\* memory, the status and the nudge as they were.
C5_AllowIsTerminal ==
  [][ (last' # last) =>
        /\ last'.decision = "allow" => ~stateFile'.exists
        /\ ~stateFile.exists =>
             /\ last'.decision = "allow"
             /\ last'.directive = << >>
             /\ UNCHANGED <<stateFile, memory, status, nudge>> ]_vars

C5_Witness ==
  /\ last.called
  /\ last.reason = "inactive"
  /\ last.decision = "allow"
  /\ setups = 1
  /\ memory.items # << >>
  /\ status.exists
  /\ nudge.exists
  /\ ~stateFile.exists

\* C6 as stated: on an active loop whose iteration or max_iterations is not
\* a well-formed non-negative decimal integer the run returns ALLOW and
\* removes the marker.
C6_MalformedAllows ==
  ( /\ last.called
    /\ last.pre.exists
    /\ ~WellFormed(PreFields.iteration) \/ ~WellFormed(PreFields.max_iterations) ) =>
     /\ last.decision = "allow"
     /\ ~stateFile.exists

\* the last agent message of the transcript has no text
LastAgentMessageEmpty(msgs) ==
  \A k \in 1..Len(LastAssistant(msgs).blocks) :
     \/ LastAssistant(msgs).blocks[k].type # "text"
     \/ LastAssistant(msgs).blocks[k].toks = << >>

\* C7: on a well-formed state, when the transcript is missing, holds no
\* agent message, or its last agent message has no text, the run removes the
\* marker and returns ALLOW with no directive and no increment.
C7_NoMessageAllows ==
  ( /\ last.called
    /\ last.pre.exists
    /\ WellFormed(PreFields.iteration)
    /\ WellFormed(PreFields.max_iterations)
    /\ \/ ~last.transcript.exists
       \/ ~HasAssistant(last.transcript.msgs)
       \/ LastAgentMessageEmpty(last.transcript.msgs) ) =>
     /\ last.decision = "allow"
     /\ last.exit = 0
     /\ ~stateFile.exists
     /\ last.directive = << >>

C7_Witness ==
  /\ last.called
  /\ last.transcript = Transcript(<< Working, ToolOnly >>)
  /\ PreFields.iteration.text = <<"2">>
  /\ PreFields.max_iterations.text = <<"0">>
  /\ last.reason = "empty_message"
  /\ last.decision = "allow"
  /\ ~stateFile.exists

\* the strategy engine ran in the last run (the hook did not fall back)
EngineAnswered == last.strategy.reason.kind \notin {"", "default"}

\* C11: in a run with no errors in the transcript, stuck_count below the
\* threshold and explore as the persisted strategy, the engine yields explore
\* with action continue at iterations 1 to 10 and focused with action switch
\* at iteration 11, and the hook persists what the engine yields.
C11_ExploreThenFocused ==
  ( /\ last.called
    /\ last.decision = "block"
    /\ EngineAnswered
    /\ last.analysis.errors = << >>
    /\ PreFields.current.text = <<"explore">>
    /\ DecValue(PreFields.stuck_count.text) < 5 ) =>
     /\ IterationOf(last.pre) <= 10 =>
          last.strategy.strategy = "explore" /\ last.strategy.action = "continue"
     /\ IterationOf(last.pre) = 11 =>
          last.strategy.strategy = "focused" /\ last.strategy.action = "switch"
     /\ HookFields(stateFile).current.text = <<last.strategy.strategy>>

C11_Witness ==
  /\ last.called
  /\ last.decision = "block"
  /\ last.analysis.errors = << >>
  /\ PreFields.iteration.text = <<"1", "1">>
  /\ PreFields.current.text = <<"explore">>
  /\ last.strategy.strategy = "focused"
  /\ last.strategy.action = "switch"
  /\ HookFields(stateFile).current.text = <<"focused">>

\* the last run fired a checkpoint: the pause message, or the annotation of
\* the status message
CheckpointFired == last.reason = "checkpoint" \/ last.message.checkpoint

\* C12 as stated: a run that returns BLOCK from iteration i fires the
\* checkpoint exactly when checkpoint_interval > 0 and i + 1 is a multiple of
\* checkpoint_interval.
C12_CheckpointIffMultiple ==
  ( /\ last.called
    /\ last.decision = "block"
    /\ WellFormed(PreFields.checkpoint_interval) ) =>
     ( CheckpointFired <=>
         /\ DecValue(PreFields.checkpoint_interval.text) > 0
         /\ (IterationOf(last.pre) + 1) % DecValue(PreFields.checkpoint_interval.text) = 0 )

\* C13 as stated: while the checkpoint marker of a pause checkpoint is
\* present, no run of the hook increments the iteration or returns a
\* strategy-driven directive.
C13_PauseHoldsTheLoop ==
  [][ (checkpoint /\ stateFile.exists /\ last' # last) =>
        /\ last'.reason # "continue"
        /\ stateFile'.exists => HookFields(stateFile').iteration = HookFields(stateFile).iteration
    ]_vars

\* C14: in notify mode a run at a checkpoint returns the directive that the
\* same run returns when no checkpoint is configured, writes no checkpoint
\* marker, and its status message is that run's message with the checkpoint
\* annotation added.
C14_NotifyKeepsDirective ==
  [][ ( /\ last' # last
        /\ last'.decision = "block"
        /\ last'.isCheckpoint
        /\ HookFields(stateFile).checkpoint_mode.text = <<"notify">> ) =>
        \E plain \in { StopHook([stateFile EXCEPT !.checkpoint_interval = << <<"0">> >>],
                                 memory, status, nudge, checkpoint, summary,
                                 last'.transcript, last'.fails, last'.past) } :
           /\ last'.reason = "continue"
           /\ last'.directive = plain.last.directive
           /\ checkpoint' = checkpoint
           /\ ~plain.last.message.checkpoint
           /\ last'.message = [plain.last.message EXCEPT !.checkpoint = TRUE]
    ]_vars

C14_Witness ==
  /\ last.called
  /\ last.decision = "block"
  /\ last.isCheckpoint
  /\ PreFields.checkpoint_mode.text = <<"notify">>
  /\ PreFields.iteration.text = <<"3">>
  /\ last.reason = "continue"
  /\ last.message.checkpoint
  /\ last.directive # << >>
  /\ ~checkpoint

\* the operator's prompt as the state file holds it: the body after the
\* blank line that setup puts before it
OperatorPrompt(file) == JoinWith(LineTokens(Tail(file.body)), "\n")

\* the directive as one text
DirectiveTokens(d) == JoinWith([i \in 1..Len(d) |-> d[i].text], "\n")

IsSuffix(a, b) == Len(a) <= Len(b) /\ SubSeq(b, Len(b) - Len(a) + 1, Len(b)) = a

\* C15 as stated: every strategy-driven directive returned with BLOCK ends
\* with the operator's prompt text exactly as the state file holds it, also
\* when the context builder fails.
C15_DirectiveEndsWithPrompt ==
  (last.called /\ last.decision = "block" /\ last.reason = "continue") =>
     IsSuffix(OperatorPrompt(last.pre), DirectiveTokens(last.directive))

\* C16 as stated: a run that returns BLOCK leaves every field of the state
\* file other than iteration and strategy.current, and every line of the
\* prompt body, as it was.
C16_BlockKeepsTheRest ==
  (last.called /\ last.decision = "block") =>
     /\ stateFile.max_iterations = last.pre.max_iterations
     /\ stateFile.completion_promise = last.pre.completion_promise
     /\ stateFile.started_at = last.pre.started_at
     /\ stateFile.session_id = last.pre.session_id
     /\ stateFile.checkpoint_interval = last.pre.checkpoint_interval
     /\ stateFile.checkpoint_mode = last.pre.checkpoint_mode
     /\ stateFile.stuck_count = last.pre.stuck_count
     /\ stateFile.body = last.pre.body

(***************************************************************************)
(* The headless runner's memory file: one session, updated every iteration *)
(***************************************************************************)
\* prompt texts handed to update-memory.ts, as lines
MemoryPrompts ==
  { << MdText(<<"task">>) >>,
    << MdText(<<"other">>), MdBlank, MdText(<<"text">>) >>,
    << MdText(<<"task">>), MdHeading("Notes"), MdText(<<"more">>) >>,
    << MdHeading("Notes"), MdText(<<"more">>) >>,
    << >> }

\* the analyses of a session: progress, errors without progress, or neither
MemoryAnalyses ==
  { DefaultAnalysis,
    [DefaultAnalysis EXCEPT !.files_modified = <<"src/a.ts">>, !.meaningful_changes = TRUE],
    [DefaultAnalysis EXCEPT !.errors = << [pattern |-> "error TS2304:"] >>] }

\* --max-iterations of run-headless.sh: 0, a small cap, the default
HeadlessCaps == {0, 2, 50}

InitMemory ==
  /\ stateFile = NoStateFile
  /\ memory = EmptyMemory
  /\ status = NoStatus
  /\ nudge = NoNudge
  /\ checkpoint = FALSE
  /\ summary = NoSummary
  /\ last = NoLast
  /\ setups = 0
  /\ seInput = NoEngineInput
  /\ seResult = NoStrategyResult
  /\ \E a \in MemoryAnalyses, l \in BOOLEAN, mx \in HeadlessCaps :
        headless = [NoHeadless EXCEPT !.analysis = a, !.learns = l, !.MAX_ITERATIONS = mx]
  /\ context = NoContext
  /\ calls = NoCalls

\* one iteration of run-headless.sh as far as the memory file goes:
\* update-memory.ts on the memory file, then ITERATION=$((ITERATION + 1))
HeadlessUpdate ==
  /\ headless.ended = ""
  /\ headless.ITERATION <= headless.MAX_ITERATIONS
  /\ headless.ITERATION <= MaxHeadlessIteration
  /\ \E p \in MemoryPrompts :
        headless' = [headless EXCEPT
          !.PROMPT = p,
          !.memoryFile = fileMain(@,
              [ state |-> [iteration |-> headless.ITERATION, prompt_text |-> p],
                analysis |-> headless.analysis,
                iteration_summary |-> << >>,
                next_actions |-> << >>,
                learnings |-> IF headless.learns
                              THEN << <<"lesson">> \o FormatDec(headless.ITERATION) >>
                              ELSE << >> ]),
          !.ITERATION = @ + 1]
  /\ UNCHANGED <<calls, hookVars, seInput, seResult, context>>

\* the while condition [[ $ITERATION -le $MAX_ITERATIONS ]] fails:
\* "Max iterations reached", summary, rm -f of the state file
HeadlessCapReached ==
  /\ headless.ended = ""
  /\ ~(headless.ITERATION <= headless.MAX_ITERATIONS)
  /\ headless' = [headless EXCEPT !.ended = "max_iterations"]
  /\ UNCHANGED <<calls, hookVars, seInput, seResult, context>>

NextMemory == HeadlessUpdate \/ HeadlessCapReached

SpecMemory == InitMemory /\ [][NextMemory]_vars

StoredObjective(file) == parseMemoryFile(file).original_objective

ObjectiveHeadings(file) ==
  Cardinality({ i \in 1..Len(file.body) :
                  file.body[i] = MdHeading("Original Objective") })

IsPrefix(a, b) == Len(a) <= Len(b) /\ SubSeq(b, 1, Len(a)) = a

\* the list after an update: what was there without its k oldest entries,
\* then at most one new entry; entries are dropped only from a full list
CappedAppend(old, new) ==
  /\ Len(new) <= MAX_ITEMS
  /\ \E k \in 0..Len(old) :
        /\ IsPrefix(SubSeq(old, k + 1, Len(old)), new)
        /\ Len(new) <= Len(old) - k + 1
        /\ k > 0 => Len(new) = MAX_ITEMS

NudgeSections(directive) ==
  { i \in 1..Len(directive) : directive[i].sec = "nudge" }

\* C19: a directive carries a nudge only when the turn that returns it found
\* that nudge in the mailbox, it carries it once, and that turn leaves the
\* mailbox empty: a nudge is back in a later directive only if it was queued
\* again
C19_NudgeDeliveredOnce ==
  [][ (last' # last /\ (NudgeSections(last'.directive) # {} \/ last'.nudge # << >>))
      => /\ nudge.exists
         /\ ~nudge'.exists
         /\ \A i \in NudgeSections(last'.directive) :
               last'.directive[i].text = StripTrailingNewlines(nudge.text)
         /\ Cardinality(NudgeSections(last'.directive)) <= 1 ]_vars

\* a turn returned the nudge in its directive and the mailbox is empty
C19_Witness ==
  /\ last.called
  /\ last.decision = "block"
  /\ NudgeSections(last.directive) # {}
  /\ ~nudge.exists

\* C20: whenever a turn removes the nudge from the mailbox, the directive
\* that turn returns contains the nudge text
C20_RemovedNudgeIsDelivered ==
  [][ (last' # last /\ nudge.exists /\ ~nudge'.exists)
      => \E i \in NudgeSections(last'.directive) :
            last'.directive[i].text = StripTrailingNewlines(nudge.text) ]_vars

(***************************************************************************)
(* The context builder on its own: build-context.ts on a drawn input       *)
(***************************************************************************)
SessionS == <<"ralph-S">>
SessionT == <<"ralph-T">>

ContextStates ==
  [ iteration : {1}, prompt_text : { << >>, <<"task">> },
    completion_promise : { << >>, <<"DONE">>, <<"null">> },
    session_id : { << >>, SessionS, SessionT } ]

ContextStrategies ==
  { DefaultStrategyResult,
    strategyEngineMain([iteration |-> 11, strategy |-> [current |-> "explore"],
                        progress |-> [stuck_count |-> 0]], DefaultAnalysis) }

ContextAnalyses ==
  { DefaultAnalysis,
    [DefaultAnalysis EXCEPT !.errors = << [pattern |-> "error TS2304:", sample |-> "error TS2304:"] >>] }

\* a memory object inside the input, or none
GivenMemories ==
  { NoSessionMemory,
    [ found |-> TRUE, original_objective |-> <<"goal">>, current_status |-> <<"busy">>,
      next_actions |-> << <<"next">> >>, key_learnings |-> << <<"lesson">> >> ],
    [ found |-> TRUE, original_objective |-> <<"goal">>, current_status |-> << >>,
      next_actions |-> << >>, key_learnings |-> << >> ] }

\* the Memorai database: missing, empty, or holding the record of session S
ContextStores ==
  { [EmptyMemory EXCEPT !.db = FALSE],
    EmptyMemory,
    [EmptyMemory EXCEPT !.items = << Item("objective", SessionS, 0, <<"goal">>),
                                     Item("state", SessionS, 1, <<"busy">>),
                                     Item("learning", SessionS, 1, <<"lesson">>) >>] }

InitContext ==
  /\ stateFile = NoStateFile
  /\ memory \in ContextStores
  /\ status = NoStatus
  /\ nudge = NoNudge
  /\ checkpoint = FALSE
  /\ summary = NoSummary
  /\ last = NoLast
  /\ setups = 0
  /\ seInput = NoEngineInput
  /\ seResult = NoStrategyResult
  /\ headless = NoHeadless
  /\ calls = NoCalls
  /\ \E st \in ContextStates, sg \in ContextStrategies, an \in ContextAnalyses,
        nc \in { << >> } \cup NudgeChoices, gm \in GivenMemories,
        pl \in { << >>, <<"Ralph Session">> } :
        context = [NoContext EXCEPT !.input =
                     [ state |-> st, strategy |-> sg, analysis |-> an, nudge_content |-> nc,
                       memory |-> gm, past |-> pl ]]

\* build-context.ts main(): read the input, print the directive
BuildContextRun ==
  /\ ~context.ran
  /\ context' = [context EXCEPT
        !.ran = TRUE,
        !.directive = LET i == context.input
                      IN renderContext(i.state, i.strategy, i.analysis, i.nudge_content,
                                       SessionMemoryFor(i.memory, i.state, memory),
                                       memory, i.past)]
  /\ UNCHANGED <<calls, hookVars, seInput, seResult, headless>>

NextContext == BuildContextRun

SpecContext == InitContext /\ [][NextContext]_vars

SectionsNamed(directive, name) ==
  { i \in 1..Len(directive) : directive[i].sec = name }

TextOf(directive, name) ==
  directive[CHOOSE i \in SectionsNamed(directive, name) : TRUE].text

\* the store is unavailable or holds nothing under the session id, and the
\* input brings no memory of its own
NoSessionRecord ==
  /\ ~context.input.memory.found
  /\ \/ ~memory.db
     \/ ~\E i \in 1..Len(memory.items) :
           /\ memory.items[i].session = context.input.state.session_id
           /\ memory.items[i].kind \in {"objective", "state"}

NoMemorySections ==
  /\ SectionsNamed(context.directive, "status") = {}
  /\ SectionsNamed(context.directive, "next_actions") = {}
  /\ SectionsNamed(context.directive, "learnings") = {}

\* C21 as stated: without a session record the mission is exactly
\* prompt_text and no status, next-actions or key-learnings section is there
C21_MissionIsPromptText ==
  (context.ran /\ NoSessionRecord)
  => /\ TextOf(context.directive, "mission") = context.input.state.prompt_text
     /\ NoMemorySections

\* C21 (amended): without a session record the mission is prompt_text, or
\* the placeholder line when prompt_text is empty, and no status,
\* next-actions or key-learnings section is there
C21_MissionIsPromptOrPlaceholder ==
  (context.ran /\ NoSessionRecord)
  => /\ TextOf(context.directive, "mission") =
           (IF context.input.state.prompt_text # << >>
            THEN context.input.state.prompt_text ELSE <<"_No objective recorded_">>)
     /\ NoMemorySections

\* the store holds the record of another session, and the mission is the prompt
C21_Witness ==
  /\ context.ran
  /\ NoSessionRecord
  /\ memory.db /\ memory.items # << >>
  /\ context.input.state.session_id = SessionT
  /\ TextOf(context.directive, "mission") = <<"task">>

SectionOrder ==
  << "banner", "nudge", "mission", "status", "next_actions", "guidance", "learnings",
     "errors", "promise", "divider", "prompt" >>

\* the place of a section in SectionOrder (0 for a section that is not in it)
PlaceOf(name) ==
  IF \E k \in 1..Len(SectionOrder) : SectionOrder[k] = name
  THEN CHOOSE k \in 1..Len(SectionOrder) : SectionOrder[k] = name
  ELSE 0

\* the data behind the status, next-actions and learnings sections: the
\* memory brought by the input, else what the store holds under the session id
StoredUnder(kind) ==
  { i \in 1..Len(memory.items) :
      /\ memory.db
      /\ context.input.state.session_id # << >>
      /\ memory.items[i].session = context.input.state.session_id
      /\ memory.items[i].kind = kind }

HasData(name) ==
  LET given == context.input.memory
      record == StoredUnder("objective") \cup StoredUnder("state") # {}
  IN CASE name = "nudge" -> context.input.nudge_content # << >>
       [] name = "status" ->
            IF given.found THEN given.current_status # << >>
            ELSE \E i \in StoredUnder("state") : memory.items[i].text # << >>
       [] name = "next_actions" -> given.found /\ given.next_actions # << >>
       [] name = "learnings" ->
            IF given.found THEN given.key_learnings # << >>
            ELSE record /\ StoredUnder("learning") # {}
       [] name = "errors" -> context.input.analysis.errors # << >>
       [] name = "promise" -> context.input.state.completion_promise # << >>
       [] OTHER -> TRUE

BuiltDirective ==
  /\ last.called
  /\ last.decision = "block"
  /\ SectionsNamed(last.directive, "banner") # {}

\* C26: a directive of the loop holds the completion-promise reminder
\* exactly when a completion promise is configured; a loop set up without
\* --completion-promise gets no directive asking for a <promise> tag
C26_ReminderIffPromise ==
  BuiltDirective
  => (SectionsNamed(last.directive, "promise") # {}
      <=> PromiseConfigured(PreFields.completion_promise.text))

C23_ZeroMeansUnlimited ==
  headless.MAX_ITERATIONS = 0 => headless.ended # "max_iterations"

RECURSIVE Occurrences(_, _)
\* how often a token stands in the messages of a trace
Occurrences(trace, tok) ==
  IF trace = << >> THEN 0
  ELSE Cardinality({ i \in 1..Len(extractFullContent(Head(trace))) :
                       extractFullContent(Head(trace))[i] = tok })
       + Occurrences(Tail(trace), tok)

\* C24: a trace that holds the same error label three times, in one message
\* or spread over several, is reported with that label and count 3 in
\* repeated_errors, and the strategy is recovery whatever the iteration
C24_ThreeOccurrencesRecover ==
  (EngineRan /\ Occurrences(seInput.trace, TsError) = 3)
  => /\ \E i \in 1..Len(seInput.analysis.repeated_errors) :
           seInput.analysis.repeated_errors[i] =
              [pattern |-> "TypeScript compilation error", count |-> 3]
     /\ seResult.strategy = "recovery"

\* stuck_count as the state file holds it
StuckCountOf(file) == DecValue(OrDefault(HookFields(file).stuck_count.text, <<"0">>))

\* C27: after a turn that was processed and blocked, the stuck_count of the
\* state file is 0 if the turn's analysis found meaningful changes and one
\* more than before the turn otherwise
C27_StuckCountCountsIdleTurns ==
  (last.called /\ last.decision = "block" /\ stateFile.exists) =>
     StuckCountOf(stateFile) =
        IF last.analysis.meaningful_changes THEN 0 ELSE StuckCountOf(last.pre) + 1

\* C28: when a run of the hook ends the session by max_iterations or by the
\* promise, the session summary exists once the marker is cleared and
\* records that termination reason
C28_SummaryWrittenAtSessionEnd ==
  (last.called /\ last.decision = "allow" /\ last.reason \in {"max_iterations", "promise"}) =>
     /\ ~stateFile.exists
     /\ summary.exists
     /\ summary.completion_reason = last.reason

\* README, Adaptive Strategies: Explore (1-10), Focused (11-35), Cleanup (36+)
DocumentedPhase(n) ==
  IF n <= 10 THEN "explore" ELSE IF n <= 35 THEN "focused" ELSE "cleanup"

\* the last run saw no recovery trigger: no error repeated three times, and
\* stuck_count below the threshold
NoTriggerSeen ==
  /\ \A i \in 1..Len(last.analysis.repeated_errors) :
        last.analysis.repeated_errors[i].count < REPEATED_ERROR_THRESHOLD
  /\ StuckCountOf(last.pre) < STUCK_THRESHOLD

\* the strategy the last directive names in its banner
DirectiveStrategy == TextOf(last.directive, "banner")[Len(TextOf(last.directive, "banner"))]

\* C29: with no recovery trigger, the directive of a BLOCK that persists
\* iteration n names the strategy documented for n: explore for 1..10,
\* focused for 11..35, cleanup from 36 on
C29_DirectiveCarriesPhaseOfNextIteration ==
  ( /\ last.called
    /\ last.decision = "block"
    /\ EngineAnswered
    /\ NoTriggerSeen
    /\ SectionsNamed(last.directive, "banner") # {} ) =>
     DirectiveStrategy = DocumentedPhase(IterationOf(stateFile))

\* the session_id setup wrote into the state record
SessionIdOf(file) == get_yaml_value(file, "session_id", file.session_id).text

\* the session ids under which the store holds items
SessionsStored == { memory.items[i].session : i \in 1..Len(memory.items) }

\* C30: every turn of a session writes and reads the one session record named
\* by the state file's session_id: after a turn that updated the memory, the
\* store's items of the session all stand under that id, and a directive built
\* when the store already holds a status shows that status
C30_OneRecordPerSession ==
  ( /\ last.called
    /\ last.decision = "block"
    /\ stateFile.exists
    /\ last.fails = {}
    /\ SectionsNamed(last.directive, "banner") # {} ) =>
     /\ SessionsStored = { SessionIdOf(stateFile) }
     /\ IterationOf(last.pre) > 1 => SectionsNamed(last.directive, "status") # {}

\* the guidance lines of the decision that name an error label to focus on
FocusLines == { i \in 1..Len(seResult.guidance) : seResult.guidance[i].pattern # "" }

\* C31: a recovery decision over a non-empty repeated_errors has exactly one
\* focus line, naming a label whose count no other label exceeds; a recovery
\* decision over an empty repeated_errors (stuck only) has no focus line
C31_RecoveryFocusesTopError ==
  (EngineRan /\ seResult.strategy = "recovery") =>
     LET rep == seInput.analysis.repeated_errors IN
     IF rep # << >>
     THEN \E i \in 1..Len(seResult.guidance) :
             /\ FocusLines = {i}
             /\ \E j \in 1..Len(rep) :
                   /\ seResult.guidance[i].pattern = rep[j].pattern
                   /\ seResult.guidance[i].count = rep[j].count
                   /\ \A k \in 1..Len(rep) : rep[k].count <= rep[j].count
     ELSE FocusLines = {}

C31_Witness ==
  /\ EngineRan
  /\ seInput.trace = << TimedOut, Erring(1), TimedOut, Erring(1), Erring(1) >>
  /\ seResult.strategy = "recovery"
  /\ \E i \in FocusLines :
        /\ seResult.guidance[i].pattern = "TypeScript compilation error"
        /\ seResult.guidance[i].count = 3
  /\ Len(seInput.analysis.repeated_errors) = 2

\* C32: recovery is returned only under a trigger: with every repeated_errors
\* count below 3 and stuck_count below 5 the decision is not recovery, also
\* when the current strategy is recovery
C32_RecoveryOnlyOnTrigger ==
  ( /\ EngineRan
    /\ \A i \in 1..Len(seInput.analysis.repeated_errors) :
          seInput.analysis.repeated_errors[i].count < 3
    /\ seInput.state.progress.stuck_count < 5 ) =>
     seResult.strategy # "recovery"

C32_Witness ==
  /\ EngineRan
  /\ seInput.state.strategy.current = "recovery"
  /\ seInput.state.progress.stuck_count = 4
  /\ seInput.state.iteration = 12
  /\ Len(seInput.analysis.repeated_errors) = 2
  /\ \A i \in 1..2 : seInput.analysis.repeated_errors[i].count = 2
  /\ seResult.strategy = "focused"

\* the last message of the transcript the last run was given carries the
\* promise the loop is configured with
PromiseHeard ==
  /\ last.transcript.exists
  /\ HasAssistant(last.transcript.msgs)
  /\ PromiseConfigured(PreFields.completion_promise.text)
  /\ PromiseMatches(ExtractPromiseText(LastOutput(last.transcript.msgs)),
                    PreFields.completion_promise.text)

\* the state file of the last run stood at or above its cap
AtCap ==
  /\ LoopActive(last.pre)
  /\ AllFound(PreFields)
  /\ IsNumeric(PreFields.iteration.text)
  /\ IsNumeric(PreFields.max_iterations.text)
  /\ BashValue(PreFields.max_iterations.text) > 0
  /\ BashValue(PreFields.iteration.text) # BashError
  /\ BashValue(PreFields.iteration.text) >= BashValue(PreFields.max_iterations.text)

Decided(l) ==
  l.called /\ l.decision = "block" /\ l.strategy.reason.kind \notin {"", "default"}

\* C34: when a turn yields recovery for an error repeated three times and the
\* next processed turn is given a transcript that extends the one of that
\* turn, the next turn yields recovery too
C34_RecoveryStaysOnGrowingTrace ==
  [][ ( /\ Decided(last)
        /\ last.strategy.strategy = "recovery"
        /\ last.strategy.reason.kind = "repeated"
        /\ Decided(last')
        /\ IsPrefix(last.transcript.msgs, last'.transcript.msgs) ) =>
         ( /\ last'.strategy.strategy = "recovery"
           /\ Len(last'.analysis.repeated_errors) >= Len(last.analysis.repeated_errors)
           /\ last'.analysis.repeated_errors[1].count >= last.analysis.repeated_errors[1].count )
    ]_vars

C34_Witness ==
  /\ Decided(last)
  /\ PreFields.current.text = <<"recovery">>
  /\ IterationOf(last.pre) = 2
  /\ last.transcript = Transcript(<< Failing, Failing, Failing, Working >>)
  /\ last.strategy.strategy = "recovery"
  /\ last.strategy.action = "continue"

\* the state file is one of a loop with a cap, and its iteration is within it
WithinCap(file) ==
  /\ LoopActive(file)
  /\ AllFound(HookFields(file))
  /\ IsNumeric(HookFields(file).iteration.text)
  /\ IsNumeric(HookFields(file).max_iterations.text)
  /\ DecValue(HookFields(file).max_iterations.text) > 0
  /\ 1 <= IterationOf(file)
  /\ IterationOf(file) <= DecValue(HookFields(file).max_iterations.text)

\* C35: in a loop with max_iterations > 0 the iteration of the state file
\* stays between 1 and max_iterations while the marker exists: a run that
\* finds it so leaves it so, or removes the marker
C35_IterationWithinCap ==
  (last.called /\ WithinCap(last.pre) /\ stateFile.exists) => WithinCap(stateFile)

(***************************************************************************)
(* Loops with a cap, followed turn by turn under a host that keeps calling *)
(* the stop hook at every attempted stop                                   *)
(***************************************************************************)
CappedOptions ==
  Options({ <<"2">>, <<"3">>, <<"0", "8">> }, { <<"null">> }, { <<"2">> },
          { "pause", "notify" }, { PlainPrompt })

LiveTranscripts ==
  { NoTranscript,
    Transcript(<< UserGo, Working >>),
    Transcript(<< Failing, Working >>) }

\* the state the setup script leaves
InitLive ==
  /\ \E o \in CappedOptions :
        /\ stateFile = SetupFile(o)
        /\ status = SetupStatus(o.max_iterations, o.checkpoint_interval)
  /\ memory = EmptyMemory
  /\ nudge = NoNudge
  /\ checkpoint = FALSE
  /\ summary = NoSummary
  /\ last = NoLast
  /\ setups = 1
  /\ seInput = NoEngineInput
  /\ seResult = NoStrategyResult
  /\ headless = NoHeadless
  /\ context = NoContext
  /\ calls = NoCalls

\* the host runs the stop hook at an attempted stop of the session
LiveHookRun ==
  /\ stateFile.exists
  /\ IterationOf(stateFile) < MaxLiveIteration
  /\ \E tr \in LiveTranscripts :
        \E r \in {StopHook(stateFile, memory, status, nudge, checkpoint, summary, tr, {}, << >>)} :
           Apply(r)
  /\ UNCHANGED <<calls, setups, seInput, seResult, headless, context>>

NextLive == LiveHookRun

SpecLive == InitLive /\ [][NextLive]_vars /\ WF_vars(LiveHookRun)

\* C36: a session with max_iterations > 0 gets ALLOW after at most
\* max_iterations runs of the stop hook, whatever the transcripts hold and
\* with pause checkpoints left unanswered.  The session starts at iteration 1
\* and every BLOCK adds one, so the run that finds iteration n is the n-th:
\* the run that finds iteration = max_iterations, if the session comes that
\* far, returns ALLOW and removes the marker
C36_AllowedWithinCapRuns ==
  ( /\ last.called
    /\ DecValue(PreFields.max_iterations.text) > 0
    /\ IterationOf(last.pre) >= DecValue(PreFields.max_iterations.text) ) =>
     /\ last.decision = "allow"
     /\ ~stateFile.exists

\* C37: a run that returns ALLOW for an active loop removes the marker and
\* leaves the nudge file, the checkpoint file, the status file and the
\* session memory as they were; a pending nudge is not consumed
C37_AllowTouchesOnlyTheMarker ==
  [][ ( /\ ~last.called
        /\ last'.called
        /\ LoopActive(stateFile)
        /\ last'.decision = "allow" ) =>
         ( /\ ~stateFile'.exists
           /\ nudge' = nudge
           /\ checkpoint' = checkpoint
           /\ status' = status
           /\ memory' = memory )
    ]_vars

C37_Witness ==
  /\ last.called
  /\ LoopActive(last.pre)
  /\ last.decision = "allow"
  /\ last.reason = "promise"
  /\ ~stateFile.exists
  /\ nudge = [exists |-> TRUE, text |-> <<"focus">>]
  /\ memory = EmptyMemory

(***************************************************************************)
(* Two invocations of the stop hook for one session.  The hook reads the   *)
(* state file when it starts and rewrites it near its end, with no lock    *)
(* in between, so the read and the write of one invocation are two steps.  *)
(***************************************************************************)
OverlapTranscripts ==
  { Transcript(<< UserGo, Working >>),
    Transcript(<< Failing, Working >>),
    Transcript(<< Working, PromiseDone >>) }

InitOverlap ==
  /\ \E o \in LoopOptions :
        /\ stateFile \in WrittenFiles(o)
        /\ status = SetupStatus(o.max_iterations, o.checkpoint_interval)
  /\ memory = EmptyMemory
  /\ nudge = NoNudge
  /\ checkpoint = FALSE
  /\ summary = NoSummary
  /\ last = NoLast
  /\ setups = 1
  /\ seInput = NoEngineInput
  /\ seResult = NoStrategyResult
  /\ headless = NoHeadless
  /\ context = NoContext
  /\ calls = NoCalls

\* variant: the write takes the iteration from the file as it is now
WriteBack_fresh(file, held) ==
  RewriteStateFile(file, FormatDec(IterationOf(file) + 1), held.last.strategy.strategy)

\* the sed of the state file: NEXT_ITERATION and NEW_STRATEGY are those
\* computed from what the invocation read, the other lines those of the file
\* as it is now
WriteBack(file, held) ==
  RewriteStateFile(file, held.stateFile.iteration[1], held.last.strategy.strategy)

\* an invocation starts: frontmatter read, termination checks, analysis,
\* strategy, memory and status updates, nudge taken
HookReads(p) ==
  /\ calls[p].pc = "idle"
  /\ \E tr \in OverlapTranscripts :
        \E r \in {StopHook(stateFile, memory, status, nudge, checkpoint, summary, tr, {}, << >>)} :
           IF r.last.decision = "block"
           THEN /\ memory' = r.memory
                /\ status' = r.status
                /\ nudge' = r.nudge
                /\ calls' = [calls EXCEPT ![p] = [pc |-> "read", held |-> r, decision |-> ""]]
                /\ UNCHANGED <<stateFile, checkpoint, summary, last>>
           ELSE /\ Apply(r)
                /\ calls' = [calls EXCEPT ![p] = [pc |-> "done", held |-> r,
                                                  decision |-> r.last.decision]]
  /\ UNCHANGED <<setups, seInput, seResult, headless, context>>

\* the invocation ends: state file rewritten, checkpoint file on a pause,
\* decision printed; sed fails (set -e: exit 1) when the file is gone
HookWrites(p) ==
  /\ calls[p].pc = "read"
  /\ LET held == calls[p].held IN
     IF ~stateFile.exists
     THEN /\ last' = [held.last EXCEPT !.decision = "error", !.exit = 2, !.reason = "abort",
                                       !.directive = << >>]
          /\ calls' = [calls EXCEPT ![p].pc = "done", ![p].decision = "error"]
          /\ UNCHANGED <<stateFile, checkpoint>>
     ELSE /\ stateFile' = WriteBack(stateFile, held)
          /\ checkpoint' = (checkpoint \/ held.checkpoint)
          /\ last' = held.last
          /\ calls' = [calls EXCEPT ![p].pc = "done", ![p].decision = "block"]
  /\ UNCHANGED <<memory, status, nudge, summary, setups, seInput, seResult, headless, context>>

NextOverlap == \E p \in Invocations : HookReads(p) \/ HookWrites(p)

SpecOverlap == InitOverlap /\ [][NextOverlap]_vars

\* the iteration an invocation read
ReadBy(p) == IterationOf(calls[p].held.last.pre)

BothBlocked ==
  \A p \in Invocations : calls[p].pc = "done" /\ calls[p].decision = "block"

\* C38: there is no lock: two invocations that both read iteration n and both
\* return BLOCK leave the persisted iteration at n + 1; it is n + 2, the
\* initial value plus the number of BLOCK decisions, only when the second
\* read what the first wrote
C38_OverlapLosesAnIncrement ==
  BothBlocked =>
     IF ReadBy(1) = ReadBy(2)
     THEN IterationOf(stateFile) = ReadBy(1) + 1
     ELSE \E p, q \in Invocations :
             /\ ReadBy(q) = ReadBy(p) + 1
             /\ IterationOf(stateFile) = ReadBy(p) + 2

C38_Witness ==
  /\ BothBlocked
  /\ ReadBy(1) = 1
  /\ ReadBy(2) = 1
  /\ IterationOf(stateFile) = 2
  /\ calls[1].held.last.transcript # calls[2].held.last.transcript

(***************************************************************************)
(* update-memory.ts (file edition) run on one memory file with the inputs  *)
(* its interface takes: state, analysis, iteration_summary, next_actions,  *)
(* learnings                                                               *)
(***************************************************************************)
MemoryInputs ==
  [ state : [iteration : {1}, prompt_text : { << MdText(<<"task">>) >>, << >> }],
    analysis : MemoryAnalyses,
    iteration_summary : { << >>, << MdText(<<"half done">>) >> },
    next_actions : { << >>, << <<"fix">>, <<"test">> >> },
    learnings : { << >>, << <<"lesson">> >> } ]

InitFile ==
  /\ stateFile = NoStateFile
  /\ memory = EmptyMemory
  /\ status = NoStatus
  /\ nudge = NoNudge
  /\ checkpoint = FALSE
  /\ summary = NoSummary
  /\ last = NoLast
  /\ setups = 0
  /\ seInput = NoEngineInput
  /\ seResult = NoStrategyResult
  /\ headless = NoHeadless
  /\ context = NoContext
  /\ calls = NoCalls

\* main(): parse the file, update the record, write the record
UpdateMemoryRun ==
  /\ headless.ITERATION <= MaxMemoryRuns
  /\ \E input \in MemoryInputs :
        LET in == [input EXCEPT !.state.iteration = headless.ITERATION]
            updated == fileUpdateMemory(parseMemoryFile(headless.memoryFile), in)
        IN headless' = [headless EXCEPT
                          !.record = updated,
                          !.memoryFile = formatMemoryFile(updated),
                          !.ITERATION = @ + 1]
  /\ UNCHANGED <<calls, hookVars, seInput, seResult, context>>

NextFile == UpdateMemoryRun

SpecFile == InitFile /\ [][NextFile]_vars

\* the memory file read back
ReadBack == parseMemoryFile(headless.memoryFile)

\* C39: the memory file round-trips: what parseMemoryFile reads from the file
\* formatMemoryFile wrote for a record has the objective, status,
\* accomplished, failed attempts, next actions and learnings of that record
C39_MemoryFileRoundTrips ==
  headless.record.found =>
     /\ ReadBack.original_objective = headless.record.original_objective
     /\ ReadBack.current_status = headless.record.current_status
     /\ ReadBack.accomplished = headless.record.accomplished
     /\ ReadBack.failed_attempts = headless.record.failed_attempts
     /\ ReadBack.next_actions = headless.record.next_actions
     /\ ReadBack.key_learnings = headless.record.key_learnings

====
